---- MODULE Spec2Model ----
(***************************************************************************)
(* A model of parts of the tantivy search engine library:                  *)
(*   - stacker/src/arena_hashmap.rs      (ArenaHashMap)                    *)
(*   - columnar/.../multivalued_index.rs (MultiValueIndex)                 *)
(*   - the index lifecycle (add / delete / commit / rollback / merge)      *)
(*   - the DocSet iterator contract as pinned down by the tests of lib.rs  *)
(*   - BooleanQuery over term clauses (tests of query/boolean_query/mod.rs) *)
(*   - schema/term.rs (Term: the byte encoding of typed values)             *)
(*   - indexer/json_term_writer.rs (JsonTermWriter, index_json_values)      *)
(*   - the postings accumulator fed by index_json_values (spec 4.2)         *)
(*   - reader generations and garbage collection of segment files (spec 5)  *)
(*   - the indexing workers behind add_document and commit (spec 5)         *)
(*   - columnar/.../reader/mod.rs (ColumnarReader: list and read columns)    *)
(*   - the query side of a JSON field: split_json_path and the type inference *)
(* Each component has its own specification (SpecMap, SpecSelect, ...);    *)
(* the variables of the other components stay at their idle value.         *)
(***************************************************************************)
EXTENDS Integers, Sequences, FiniteSets, TLC

VARIABLES
    \* ---- ArenaHashMap (stacker/src/arena_hashmap.rs) ----
    table,          \* Box<[KeyValue]>; bucket b is table[b + 1]
    memory_arena,   \* MemoryArena: the entries [len | key bytes | value], one per Addr
    mask,           \* table.len() - 1
    occupied,       \* Vec<usize>: the occupied buckets, in insertion order
    len,            \* number of keys
    murmurhash2,    \* the hash of every key (an arbitrary function of the key)
    reference,      \* history: the reference key -> value map (NoneV when absent)
    inserted,       \* history: the distinct keys in the order of their first insertion
    last_call,      \* history: the last mutate_or_create call and what it saw and returned
    \* ---- MultiValueIndex (columnar/src/column_index/multivalued_index.rs) ----
    start_index_column, \* the offset index; offsets[d] is start_index_column[d + 1]
    row_start,      \* the row_start argument of select_batch_in_place
    ranks,          \* the ranks argument (&mut Vec<u32>), converted in place
    ranks_in,       \* history: ranks as passed by the caller
    select_outcome, \* "pending" before the call, then "returned" or "panicked"
    \* ---- Index lifecycle (IndexWriter, IndexReader; spec 4.9 and 5) ----
    stamper,        \* the next opstamp the writer hands out
    pending_docs,   \* the documents added since the last commit (in-memory segment)
    delete_queue,   \* the delete_term operations issued since the last commit
    meta,           \* the meta record: the live segments and the committed opstamp
    searcher,       \* the snapshot of the meta the reader loaded last
    oplog,          \* history: every add, delete and commit, and whether a rollback discarded it
    committed_live, \* history: the live documents right after the last commit
    last_op,        \* history: the operation that ran last
    \* ---- DocSet (postings and scorers; tests of src/lib.rs, spec 4.6) ----
    inverted_index, \* the segment's inverted index: the docs of every term
    docset_kind,    \* "none", or what was created: "postings" or "scorer"
    docset,         \* the DocSet: its matching docs in order, and its cursor
    docset_terms,   \* history: the terms the DocSet was created for
    advances,       \* history: the number of advance() calls since creation
    last_advance,   \* history: what the last advance() returned
    \* ---- BooleanQuery (src/query/boolean_query/mod.rs, spec 4.6 and 4.7) ----
    segment_docs,   \* the documents of the segment searched: the tokens of each doc
    bq_clauses,     \* the clauses (Occur, term) of the BooleanQuery
    bq_searched,    \* whether Searcher::search has run the query
    bq_collected,   \* the (doc, score) pairs the collector received, in order
    \* ---- Term (src/schema/term.rs) ----
    term_built,     \* the bytes of the Term built last (Term wraps a Vec<u8>)
    built_from,     \* history: the field, type and value it was built from
    term_before,    \* the bytes of the Term built before it
    before_from,    \* history: what that one was built from
    \* ---- JsonTermWriter (src/indexer/json_term_writer.rs) ----
    json_term_writer, \* term_buffer, path_stack, expand_dots_enabled; panicked once a call panicked
    json_field,     \* history: the field the term buffer was created for
    open_segments,  \* history: the segments pushed and not yet popped, as they were passed
    json_last_call, \* history: the last call on the writer and its arguments
    \* ---- Postings accumulator (spec 4.2; index_json_values) ----
    per_term_state, \* postings accumulator: term bytes -> PerTermState
    added_docs,     \* history: the documents added to the segment, by index in Documents
    hash_modulus,   \* range of the path hash standing for murmurhash2
    last_add,       \* history: the last index_json_values call and how it ended
    \* ---- Reader generations and garbage collection (spec 2 and 5; core/mod.rs) ----
    managed_files,  \* the segments whose files are in the directory
    live_meta,      \* the segments the latest committed meta lists
    next_segment,   \* the id the next written segment gets
    reader_pool,    \* the current generation of the reader: its segment list
    searchers,      \* the live searchers: the generation each one holds, or NoneV
    gc_candidates,  \* the files a running sweep has found unreferenced
    metas_published, \* history: every segment list the meta has held
    deleted_files,  \* history: the files garbage collection deleted
    reader_last,    \* history: the last operation, and what it saw
    \* ---- Indexing workers (spec 5; crate docs of src/lib.rs) ----
    channel,        \* the documents handed to add_document and not yet taken by a worker
    worker_segment, \* the private in-memory segment of every worker: its documents
    pending_segments, \* the segments the workers have serialized, not yet published
    published_segments, \* the segments the commits have published
    docs_added,     \* the number of add_document calls that returned
    committing,     \* whether the writer is inside commit()
    workers_last,   \* history: the last step, and the documents added before the commit
    \* ---- ColumnarReader (columnar/src/columnar/reader/mod.rs) ----
    recorded_columns, \* the (name, type) pairs the writer has recorded
    column_dictionary, \* the keys of the dictionary of the opened columnar, or NoneV
    columnar_last,  \* history: the last call of the reader, and its result
    \* ---- The query side of a JSON field (indexer/json_term_writer.rs) ----
    query_json_path, \* the json path given to from_field_and_json_path
    query_writer,   \* the JsonTermWriter it returns, or NoneV
    query_last      \* history: the last call, its argument and what it returned

mapVars == <<table, memory_arena, mask, occupied, len, murmurhash2,
             reference, inserted, last_call>>

selectVars == <<start_index_column, row_start, ranks, ranks_in, select_outcome>>

indexVars == <<stamper, pending_docs, delete_queue, meta, searcher, oplog,
               committed_live, last_op>>

docsetVars == <<inverted_index, docset_kind, docset, docset_terms, advances, last_advance>>

boolVars == <<segment_docs, bq_clauses, bq_searched, bq_collected>>

termVars == <<term_built, built_from, term_before, before_from>>

jsonVars == <<json_term_writer, json_field, open_segments, json_last_call>>
postingsVars == <<per_term_state, added_docs, hash_modulus, last_add>>
readerVars == <<managed_files, live_meta, next_segment, reader_pool, searchers,
               gc_candidates, metas_published, deleted_files, reader_last>>

workersVars == <<channel, worker_segment, pending_segments, published_segments,
                docs_added, committing, workers_last>>

columnarVars == <<recorded_columns, column_dictionary, columnar_last>>

queryVars == <<query_json_path, query_writer, query_last>>

vars == <<mapVars, selectVars, indexVars, docsetVars, boolVars, termVars, jsonVars, postingsVars, readerVars, workersVars, columnarVars, queryVars>>

\* the variables of the other components, which a component's actions leave alone
notMapVars == <<selectVars, indexVars, docsetVars, boolVars, termVars, jsonVars, postingsVars, readerVars, workersVars, columnarVars, queryVars>>

notSelectVars == <<mapVars, indexVars, docsetVars, boolVars, termVars, jsonVars, postingsVars, readerVars, workersVars, columnarVars, queryVars>>

notIndexVars == <<mapVars, selectVars, docsetVars, boolVars, termVars, jsonVars, postingsVars, readerVars, workersVars, columnarVars, queryVars>>

notDocSetVars == <<mapVars, selectVars, indexVars, boolVars, termVars, jsonVars, postingsVars, readerVars, workersVars, columnarVars, queryVars>>

notBoolVars == <<mapVars, selectVars, indexVars, docsetVars, termVars, jsonVars, postingsVars, readerVars, workersVars, columnarVars, queryVars>>

notTermVars == <<mapVars, selectVars, indexVars, docsetVars, boolVars, jsonVars, postingsVars, readerVars, workersVars, columnarVars, queryVars>>

notJsonVars == <<mapVars, selectVars, indexVars, docsetVars, boolVars, termVars, postingsVars, readerVars, workersVars, columnarVars, queryVars>>

notPostingsVars == <<mapVars, selectVars, indexVars, docsetVars, boolVars, termVars, jsonVars, readerVars, workersVars, columnarVars, queryVars>>

notReaderVars == <<mapVars, selectVars, indexVars, docsetVars, boolVars, termVars, jsonVars, postingsVars, workersVars, columnarVars, queryVars>>

notWorkersVars == <<mapVars, selectVars, indexVars, docsetVars, boolVars, termVars, jsonVars, postingsVars, readerVars, columnarVars, queryVars>>

notColumnarVars == <<mapVars, selectVars, indexVars, docsetVars, boolVars, termVars, jsonVars, postingsVars, readerVars, workersVars, queryVars>>

notQueryVars == <<mapVars, selectVars, indexVars, docsetVars, boolVars, termVars, jsonVars, postingsVars, readerVars, workersVars, columnarVars>>

-----------------------------------------------------------------------------
(* Shared helpers *)

NoneV == [some |-> FALSE]

SomeV(v) == [some |-> TRUE, val |-> v]

\* x & m for a mask m = 2^k - 1
BitAndMask(x, m) == x % (m + 1)

-----------------------------------------------------------------------------
(* ArenaHashMap *)

\* the keys fed to the map: byte strings
Keys == {<<97>>, <<98>>, <<97, 98>>}

\* the values the updater closures return
Values == {3, 5}

\* hashes range over 0..MaxHash; any assignment of hashes to keys is tried
MaxHash == 2

\* ArenaHashMap::new is tried with every table_size in 1..MaxTableSize
MaxTableSize == 4

\* Addr::null_pointer(); the arena's addresses are 1, 2, ...
NullAddr == 0

KeyValueDefault == [key_value_addr |-> NullAddr, hash |-> 0, unordered_id |-> 0]

is_empty(kv) == kv.key_value_addr = NullAddr

RECURSIVE compute_previous_power_of_two(_)
compute_previous_power_of_two(n) ==
    IF n < 2 THEN 1 ELSE 2 * compute_previous_power_of_two(n \div 2)

\* QuadraticProbing::next_probe after i increments of self.i
next_probe(hash, i, msk) == BitAndMask(hash + i, msk)

\* the faulty variant: the table is let fill up to one half
is_saturated_at_half(tbl, occ) == Len(tbl) < Len(occ) * 2

is_saturated(tbl, occ) == Len(tbl) < Len(occ) * 3

\* the key stored at addr, and the address of the value laid out after it
get_key_value(arena, addr) == [key |-> arena[addr].key, value_addr |-> addr]

\* faulty variant: the key bytes are not compared, a matching hash is enough
get_value_addr_if_key_match_hash_only(arena, target_key, addr) ==
    SomeV(get_key_value(arena, addr).value_addr)

get_value_addr_if_key_match(arena, target_key, addr) ==
    LET kv == get_key_value(arena, addr)
    IN  IF kv.key = target_key THEN SomeV(kv.value_addr) ELSE NoneV

\* The probing loop of get and of mutate_or_create: the first bucket that is
\* empty, or whose hash and key bytes match. The probe sequence has period
\* Len(tbl): once i exceeds it, the loop never ends.
RECURSIVE probe_loop(_, _, _, _, _, _)
probe_loop(tbl, arena, msk, key, hash, i) ==
    LET bucket == next_probe(hash, i, msk)
        kv == tbl[bucket + 1]
        m == get_value_addr_if_key_match(arena, key, kv.key_value_addr)
    IN  IF i > Len(tbl) THEN [kind |-> "diverges"]
        ELSE IF is_empty(kv) THEN [kind |-> "empty", bucket |-> bucket]
        ELSE IF kv.hash = hash /\ m.some
             THEN [kind |-> "match", bucket |-> bucket, val_addr |-> m.val]
        ELSE probe_loop(tbl, arena, msk, key, hash, i + 1)

\* the inner loop of resize: the first empty bucket of the new table
RECURSIVE resize_probe(_, _, _, _)
resize_probe(tbl, hash, i, msk) ==
    LET bucket == next_probe(hash, i, msk)
    IN  IF is_empty(tbl[bucket + 1]) THEN bucket
        ELSE resize_probe(tbl, hash, i + 1, msk)

\* the outer loop of resize, from the k-th occupied bucket on
RECURSIVE resize_loop(_, _, _, _, _)
resize_loop(old_table, new_table, occ, k, msk) ==
    IF k > Len(occ) THEN [table |-> new_table, occupied |-> occ, mask |-> msk]
    ELSE LET key_value == old_table[occ[k] + 1]
             bucket == resize_probe(new_table, key_value.hash, 1, msk)
         IN  resize_loop(old_table,
                         [new_table EXCEPT ![bucket + 1] = key_value],
                         [occ EXCEPT ![k] = bucket],
                         k + 1, msk)

\* the faulty variant: the unordered_id is not copied into the new table
resize_dropping_unordered_id(tbl, occ) ==
    LET new_len == Len(tbl) * 2
        r == resize_loop(tbl, [b \in 1..new_len |-> KeyValueDefault], occ, 1, new_len - 1)
    IN  [r EXCEPT !.table = [b \in 1..new_len |-> [r.table[b] EXCEPT !.unordered_id = 0]]]

resize(tbl, occ) ==
    LET new_len == Len(tbl) * 2
    IN  resize_loop(tbl, [b \in 1..new_len |-> KeyValueDefault], occ, 1, new_len - 1)

\* faulty variant: the id is read after self.len was incremented
set_bucket_id_after_increment(n) == n + 1

\* the unordered_id set_bucket gives to a new key when the map holds n keys
set_bucket_id(n) == n

\* ArenaHashMap::get
get(tbl, arena, msk, hashes, key) ==
    LET p == probe_loop(tbl, arena, msk, key, hashes[key], 1)
    IN  CASE p.kind = "empty" -> NoneV
          [] p.kind = "match" -> SomeV(arena[p.val_addr].value)
          [] OTHER -> [some |-> FALSE, diverges |-> TRUE]

\* ArenaHashMap::iter: the key, the value address and the unordered_id of
\* the occupied buckets, in the order of occupied
iter(tbl, arena, occ) ==
    [k \in 1..Len(occ) |->
        LET kv == tbl[occ[k] + 1]
            key_value == get_key_value(arena, kv.key_value_addr)
        IN  [key |-> key_value.key, addr |-> key_value.value_addr,
             unordered_id |-> kv.unordered_id]]

InitMapVars ==
    /\ \E table_size \in 1..MaxTableSize :
          LET table_size_power_of_2 == compute_previous_power_of_two(table_size)
          IN  /\ table = [b \in 1..table_size_power_of_2 |-> KeyValueDefault]
              /\ mask = table_size_power_of_2 - 1
    /\ memory_arena = <<>>
    /\ occupied = <<>>
    /\ len = 0
    /\ murmurhash2 \in [Keys -> 0..MaxHash]
    /\ reference = [k \in Keys |-> NoneV]
    /\ inserted = <<>>
    /\ last_call = [key |-> <<>>, arg |-> NoneV, expected |-> NoneV, val |-> 0,
                    id |-> 0, created |-> FALSE]

IdleMapVars ==
    /\ table = <<>>
    /\ memory_arena = <<>>
    /\ mask = 0
    /\ occupied = <<>>
    /\ len = 0
    /\ murmurhash2 = <<>>
    /\ reference = <<>>
    /\ inserted = <<>>
    /\ last_call = <<>>

\* ArenaHashMap::mutate_or_create(key, updater), the updater returning new_v
mutate_or_create(key, new_v) ==
    LET r == IF is_saturated(table, occupied) THEN resize(table, occupied)
             ELSE [table |-> table, occupied |-> occupied, mask |-> mask]
        hash == murmurhash2[key]
        p == probe_loop(r.table, memory_arena, r.mask, key, hash, 1)
    IN  /\ p.kind \in {"empty", "match"}
        /\ mask' = r.mask
        /\ IF p.kind = "empty"
           THEN \* the key does not exist yet: updater(None)
                LET key_addr == Len(memory_arena) + 1
                    unordered_id == set_bucket_id(len)
                IN  /\ memory_arena' = Append(memory_arena, [key |-> key, value |-> new_v])
                    /\ occupied' = Append(r.occupied, p.bucket)
                    /\ len' = len + 1
                    /\ table' = [r.table EXCEPT ![p.bucket + 1] =
                                    [key_value_addr |-> key_addr, hash |-> hash,
                                     unordered_id |-> unordered_id]]
                    /\ last_call' = [key |-> key, arg |-> NoneV,
                                     expected |-> reference[key], val |-> new_v,
                                     id |-> unordered_id, created |-> TRUE]
           ELSE \* updater(Some(v)), the value overwritten in place
                LET v == memory_arena[p.val_addr].value
                IN  /\ memory_arena' = [memory_arena EXCEPT ![p.val_addr].value = new_v]
                    /\ occupied' = r.occupied
                    /\ len' = len
                    /\ table' = r.table
                    /\ last_call' = [key |-> key, arg |-> SomeV(v),
                                     expected |-> reference[key], val |-> new_v,
                                     id |-> r.table[p.bucket + 1].unordered_id,
                                     created |-> FALSE]
        /\ reference' = [reference EXCEPT ![key] = SomeV(new_v)]
        /\ inserted' = IF reference[key].some THEN inserted ELSE Append(inserted, key)
        /\ UNCHANGED murmurhash2

MutateOrCreate ==
    /\ \E key \in Keys, new_v \in Values : mutate_or_create(key, new_v)
    /\ UNCHANGED notMapVars

-----------------------------------------------------------------------------
(* MultiValueIndex::select_batch_in_place *)

\* an offset index has 1..MaxDocs docs
MaxDocs == 3

\* the flat values column has at most MaxValues values
MaxValues == 3

\* select_batch_in_place is called with at most MaxRanks ranks
MaxRanks == 3

\* ColumnValues::get_val of the offset index
get_val(col, row_id) == col[row_id + 1]

\* MultiValueIndex::num_rows
num_rows(col) == Len(col) - 1

IsNonDecreasing(s) == \A i \in 1..(Len(s) - 1) : s[i] <= s[i + 1]

\* the offset indexes a segment can hold: non-decreasing, starting at 0
OffsetIndexes ==
    {col \in UNION {[1..n -> 0..MaxValues] : n \in 2..(MaxDocs + 1)} :
        col[1] = 0 /\ IsNonDecreasing(col)}

\* the rank lists a caller can pass: ranks of values of the column, in any order
RankLists(col) ==
    UNION {[1..n -> 0..(col[Len(col)] - 1)] : n \in 0..MaxRanks}

\* the offsets and the positions of test_positions_to_docid
TestOffsets == <<0, 10, 12, 15, 22, 23>>

TestPositions == <<10, 11, 15, 20, 21, 22>>

\* faulty variant: the assertion looks at the last rank
assert_checks_last_rank(col, start, rks) == get_val(col, start) <= rks[Len(rks)]

\* faulty variant: the assertion is compiled out
assert_compiled_out(col, start, rks) == TRUE

\* assert!(self.start_index_column.get_val(row_start) as u32 <= ranks[0])
assert_holds(col, start, rks) == get_val(col, start) <= rks[1]

\* faulty variant: a doc that ends at pos is taken to own it
doc_found_inclusive(end, pos) == end >= pos

\* the exit condition of the inner loop: cur_doc owns pos
doc_found(end, pos) == end > pos

\* faulty variant: the loop steps cur_doc before it looks at the end offset
RECURSIVE scan_to_doc_stepping_first(_, _, _)
scan_to_doc_stepping_first(col, cur_doc, pos) ==
    IF cur_doc + 2 > num_rows(col) THEN [kind |-> "out_of_bounds"]
    ELSE IF doc_found(get_val(col, cur_doc + 2), pos) THEN [kind |-> "doc", doc |-> cur_doc + 1]
    ELSE scan_to_doc_stepping_first(col, cur_doc + 1, pos)

\* the inner loop: step cur_doc forward to the doc that owns pos
RECURSIVE scan_to_doc(_, _, _)
scan_to_doc(col, cur_doc, pos) ==
    IF cur_doc + 1 > num_rows(col) THEN [kind |-> "out_of_bounds"]
    ELSE IF doc_found(get_val(col, cur_doc + 1), pos) THEN [kind |-> "doc", doc |-> cur_doc]
    ELSE scan_to_doc(col, cur_doc + 1, pos)

\* faulty variant: write_doc_pos moves on after every rank
RECURSIVE select_loop_without_dedup(_, _, _, _, _, _)
select_loop_without_dedup(col, rks, i, cur_doc, last_doc, write_doc_pos) ==
    IF i > Len(rks)
    THEN [outcome |-> "returned", ranks |-> SubSeq(rks, 1, write_doc_pos)]
    ELSE LET pos == rks[i]
             s == scan_to_doc(col, cur_doc, pos)
         IN  IF s.kind = "out_of_bounds" THEN [outcome |-> "panicked", ranks |-> rks]
             ELSE select_loop_without_dedup(col,
                              [rks EXCEPT ![write_doc_pos + 1] = s.doc],
                              i + 1, s.doc, SomeV(s.doc), write_doc_pos + 1)

\* the for loop over ranks, from index i (1-based) on
RECURSIVE select_loop(_, _, _, _, _, _)
select_loop(col, rks, i, cur_doc, last_doc, write_doc_pos) ==
    IF i > Len(rks)
    THEN [outcome |-> "returned", ranks |-> SubSeq(rks, 1, write_doc_pos)]
    ELSE LET pos == rks[i]
             s == scan_to_doc(col, cur_doc, pos)
         IN  IF s.kind = "out_of_bounds" THEN [outcome |-> "panicked", ranks |-> rks]
             ELSE select_loop(col,
                              [rks EXCEPT ![write_doc_pos + 1] = s.doc],
                              i + 1, s.doc, SomeV(s.doc),
                              write_doc_pos + (IF last_doc = SomeV(s.doc) THEN 0 ELSE 1))

\* faulty variant: last_doc starts as Some(row_start)
select_batch_in_place_last_doc_set(col, start, rks) ==
    IF rks = <<>> THEN [outcome |-> "returned", ranks |-> rks]
    ELSE IF ~assert_holds(col, start, rks) THEN [outcome |-> "panicked", ranks |-> rks]
    ELSE select_loop(col, rks, 1, start, SomeV(start), 0)

\* MultiValueIndex::select_batch_in_place(row_start, ranks)
select_batch_in_place(col, start, rks) ==
    IF rks = <<>> THEN [outcome |-> "returned", ranks |-> rks]
    ELSE IF ~assert_holds(col, start, rks) THEN [outcome |-> "panicked", ranks |-> rks]
    ELSE select_loop(col, rks, 1, start, NoneV, 0)

InitSelectVars ==
    /\ \/ /\ start_index_column \in OffsetIndexes
          /\ ranks \in RankLists(start_index_column)
       \/ /\ start_index_column = TestOffsets
          /\ ranks \in {TestPositions, <<9>>, <<12, 14, 15>>}
    /\ row_start \in 0..(num_rows(start_index_column) - 1)
    /\ ranks_in = ranks
    /\ select_outcome = "pending"

IdleSelectVars ==
    /\ start_index_column = <<>>
    /\ row_start = 0
    /\ ranks = <<>>
    /\ ranks_in = <<>>
    /\ select_outcome = "idle"

SelectBatchInPlace ==
    /\ select_outcome = "pending"
    /\ LET r == select_batch_in_place(start_index_column, row_start, ranks)
       IN  /\ ranks' = r.ranks
           /\ select_outcome' = r.outcome
    /\ UNCHANGED <<start_index_column, row_start, ranks_in>>
    /\ UNCHANGED notSelectVars

-----------------------------------------------------------------------------
(* Index lifecycle: add_document, delete_term, commit, rollback, merge, reload *)

\* opstamps 0..MaxOpstamp - 1 are handed out
MaxOpstamp == 5

\* the terms of the indexed field
Terms == {"a", "b"}

\* the documents a caller adds: the set of the terms they contain
DocTermSets == {{"a"}, {"b"}, {"a", "b"}}

\* faulty variant: a delete affects every matching document of the commit
delete_affects_any_opstamp(delete_opstamp, doc_opstamp) == TRUE

\* faulty variant: a delete also affects the document added right after it
delete_affects_next_opstamp(delete_opstamp, doc_opstamp) == doc_opstamp <= delete_opstamp + 1

\* a delete with opstamp n affects the documents added with a smaller opstamp
\* and not a document added with opstamp n + 1
delete_affects(delete_opstamp, doc_opstamp) == doc_opstamp < delete_opstamp

\* the documents of a segment that a queue of deletes marks deleted
deleted_by(docs, deletes) ==
    {d.opstamp : d \in {d \in docs : \E del \in deletes :
                            /\ del.term \in d.terms
                            /\ delete_affects(del.opstamp, d.opstamp)}}

\* the live documents (named by the opstamp that added them) of a set of segments
live_docs(segments) ==
    UNION {{d.opstamp : d \in seg.docs} \ seg.deleted : seg \in segments}

\* the faulty variant: the documents marked deleted are left out
segment_doc_freq_alive(seg, term) ==
    Cardinality({d \in seg.docs : term \in d.terms /\ d.opstamp \notin seg.deleted})

\* the doc_freq the term has in the postings file of a segment: the number
\* of documents of the segment containing it.  The file is written once; a
\* later delete writes a deletes file and leaves the postings file as it is.
segment_doc_freq(seg, term) ==
    Cardinality({d \in seg.docs : term \in d.terms})

\* Searcher::doc_freq: the sum over the segments of the searcher
doc_freq(segments, term) ==
    LET RECURSIVE sum_doc_freq(_)
        sum_doc_freq(S) == IF S = {} THEN 0
                           ELSE LET seg == CHOOSE seg \in S : TRUE
                                IN  segment_doc_freq(seg, term) + sum_doc_freq(S \ {seg})
    IN  sum_doc_freq(segments)

InitIndexVars ==
    /\ stamper = 0
    /\ pending_docs = {}
    /\ delete_queue = {}
    /\ meta = [segments |-> {}, opstamp |-> 0]
    /\ searcher = [segments |-> {}, opstamp |-> 0]
    /\ oplog = <<>>
    /\ committed_live = {}
    /\ last_op = "new"

IdleIndexVars ==
    /\ stamper = 0
    /\ pending_docs = {}
    /\ delete_queue = {}
    /\ meta = <<>>
    /\ searcher = <<>>
    /\ oplog = <<>>
    /\ committed_live = {}
    /\ last_op = "idle"

\* IndexWriter::add_document
add_document(terms) ==
    /\ stamper < MaxOpstamp
    /\ stamper' = stamper + 1
    /\ pending_docs' = pending_docs \cup {[opstamp |-> stamper, terms |-> terms]}
    /\ oplog' = Append(oplog, [kind |-> "add", opstamp |-> stamper, terms |-> terms,
                               discarded |-> FALSE])
    /\ last_op' = "add"
    /\ UNCHANGED <<delete_queue, meta, searcher, committed_live>>

\* IndexWriter::delete_term
delete_term(term) ==
    /\ stamper < MaxOpstamp
    /\ stamper' = stamper + 1
    /\ delete_queue' = delete_queue \cup {[opstamp |-> stamper, term |-> term]}
    /\ oplog' = Append(oplog, [kind |-> "delete", opstamp |-> stamper, terms |-> {term},
                               discarded |-> FALSE])
    /\ last_op' = "delete"
    /\ UNCHANGED <<pending_docs, meta, searcher, committed_live>>

\* the segments a commit publishes: the prior segments with the pending deletes
\* applied, and the pending documents as a new segment
committed_segments(segments, docs, deletes) ==
    LET prior == {[seg EXCEPT !.deleted = @ \cup deleted_by(seg.docs, deletes)] :
                     seg \in segments}
        new == IF docs = {} THEN {}
               ELSE {[docs |-> docs, deleted |-> deleted_by(docs, deletes)]}
    IN  prior \cup new

\* IndexWriter::commit: the meta record is replaced atomically
commit ==
    /\ stamper < MaxOpstamp
    /\ stamper' = stamper + 1
    /\ meta' = [segments |-> committed_segments(meta.segments, pending_docs, delete_queue),
                opstamp |-> stamper]
    /\ pending_docs' = {}
    /\ delete_queue' = {}
    /\ committed_live' = live_docs(meta'.segments)
    /\ oplog' = Append(oplog, [kind |-> "commit", opstamp |-> stamper, terms |-> {},
                               discarded |-> FALSE])
    /\ last_op' = "commit"
    /\ UNCHANGED searcher
    /\ UNCHANGED notIndexVars

\* what rollback leaves of the uncommitted state
\* faulty variant: the delete queue survives the rollback
rollback_keeps_delete_queue(docs, deletes) == [docs |-> {}, deletes |-> deletes]

rollback_discard(docs, deletes) == [docs |-> {}, deletes |-> {}]

\* IndexWriter::rollback: the uncommitted in-memory state is discarded
rollback ==
    /\ LET kept == rollback_discard(pending_docs, delete_queue)
       IN  /\ pending_docs' = kept.docs
           /\ delete_queue' = kept.deletes
    /\ LET uncommitted == {d.opstamp : d \in pending_docs \cup delete_queue}
       IN  oplog' = [i \in 1..Len(oplog) |->
                        IF oplog[i].opstamp \in uncommitted
                        THEN [oplog[i] EXCEPT !.discarded = TRUE] ELSE oplog[i]]
    /\ last_op' = "rollback"
    /\ UNCHANGED <<stamper, meta, searcher, committed_live>>
    /\ UNCHANGED notIndexVars

\* the segment a merge writes: the live documents of the merged segments
merged_segments(segments, merged) ==
    LET docs == {d \in UNION {seg.docs : seg \in merged} : d.opstamp \in live_docs(merged)}
    IN  (segments \ merged) \cup (IF docs = {} THEN {} ELSE {[docs |-> docs, deleted |-> {}]})

\* IndexWriter::merge(segment_ids).wait()
merge ==
    /\ \E merged \in (SUBSET meta.segments) \ {{}} :
          meta' = [meta EXCEPT !.segments = merged_segments(meta.segments, merged)]
    /\ last_op' = "merge"
    /\ UNCHANGED <<stamper, pending_docs, delete_queue, searcher, oplog, committed_live>>
    /\ UNCHANGED notIndexVars

\* IndexReader::reload: the reader's segment list is swapped for the meta's
reload ==
    /\ searcher' = meta
    /\ last_op' = "reload"
    /\ UNCHANGED <<stamper, pending_docs, delete_queue, meta, oplog, committed_live>>
    /\ UNCHANGED notIndexVars

AddDocument ==
    /\ \E terms \in DocTermSets : add_document(terms)
    /\ UNCHANGED notIndexVars

DeleteTerm ==
    /\ \E term \in Terms : delete_term(term)
    /\ UNCHANGED notIndexVars

-----------------------------------------------------------------------------
(* DocSet: the postings of a term and the scorer of a boolean query *)

\* the segment holds the docs 0..MaxDocId
MaxDocId == 2

\* the sentinel doc id, above every doc id of a segment
TERMINATED == 2147483647

RECURSIVE sorted_docs(_)
sorted_docs(S) ==
    IF S = {} THEN <<>>
    ELSE LET m == CHOOSE x \in S : \A y \in S : x <= y
         IN  <<m>> \o sorted_docs(S \ {m})

\* faulty variant: an exhausted DocSet reports doc 0
doc_zero_when_exhausted(ds) ==
    IF ds.cursor \in 1..Len(ds.docs) THEN ds.docs[ds.cursor] ELSE 0

\* DocSet::doc
doc(ds) ==
    IF ds.cursor \in 1..Len(ds.docs) THEN ds.docs[ds.cursor] ELSE TERMINATED

\* faulty variant: the DocSet starts before its first doc
new_docset_before_first_doc(docs) == [docs |-> sorted_docs(docs), cursor |-> 0]

\* a DocSet as read_postings and Weight::scorer hand it out: already on its
\* first doc (postings.doc() is 0 before any advance in test_indexed_u64)
new_docset(docs) == [docs |-> sorted_docs(docs), cursor |-> 1]

InitDocSetVars ==
    /\ inverted_index \in [Terms -> SUBSET (0..MaxDocId)]
    /\ docset_kind = "none"
    /\ docset = [docs |-> <<>>, cursor |-> 0]
    /\ docset_terms = {}
    /\ advances = 0
    /\ last_advance = 0

IdleDocSetVars ==
    /\ inverted_index = <<>>
    /\ docset_kind = "idle"
    /\ docset = <<>>
    /\ docset_terms = {}
    /\ advances = 0
    /\ last_advance = 0

\* InvertedIndexReader::read_postings(term, option): None for an absent term
read_postings(term) ==
    /\ docset_kind = "none"
    /\ inverted_index[term] # {}
    /\ docset_kind' = "postings"
    /\ docset' = new_docset(inverted_index[term])
    /\ docset_terms' = {term}
    /\ UNCHANGED <<inverted_index, advances, last_advance>>

\* Weight::scorer of BooleanQuery [(Should, term) : term in should]
boolean_scorer(should) ==
    /\ docset_kind = "none"
    /\ docset_kind' = "scorer"
    /\ docset' = new_docset(UNION {inverted_index[t] : t \in should})
    /\ docset_terms' = should
    /\ UNCHANGED <<inverted_index, advances, last_advance>>

\* DocSet::advance
advance ==
    /\ docset_kind \in {"postings", "scorer"}
    /\ advances <= MaxDocId + 1
    /\ docset' = IF doc(docset) = TERMINATED THEN docset
                 ELSE [docset EXCEPT !.cursor = @ + 1]
    /\ advances' = advances + 1
    /\ last_advance' = doc(docset')
    /\ UNCHANGED <<inverted_index, docset_kind, docset_terms>>
    /\ UNCHANGED notDocSetVars

ReadPostings ==
    /\ \E term \in Terms : read_postings(term)
    /\ UNCHANGED notDocSetVars

BooleanScorer ==
    /\ \E should \in (SUBSET Terms) \ {{}} : boolean_scorer(should)
    /\ UNCHANGED notDocSetVars

-----------------------------------------------------------------------------
(* BooleanQuery over term clauses: the scorer tree and the collected docs *)

\* the number of clauses of a query
MaxClauses == 3

Occur == {"Must", "Should", "MustNot"}

\* the segment aux_test_helper writes: "a b c", "a c", "b c", "a b c d", "d"
aux_test_helper ==
    << <<"a", "b", "c">>, <<"a", "c">>, <<"b", "c">>, <<"a", "b", "c", "d">>, <<"d">> >>

\* the segment test_boolean_query_with_weight writes: "a b c", "a c", "b c"
with_weight_docs == << <<"a", "b", "c">>, <<"a", "c">>, <<"b", "c">> >>

\* the segment test_explain writes: "a", "b"
explain_docs == << <<"a">>, <<"b">> >>

TestSegments == {aux_test_helper, with_weight_docs, explain_docs}

\* the terms of a segment's term dictionary
segment_terms(docs) == UNION {{docs[i][k] : k \in 1..Len(docs[i])} : i \in 1..Len(docs)}

\* the term frequency of term in the doc with id doc_id
term_freq(docs, term, doc_id) ==
    Cardinality({k \in 1..Len(docs[doc_id + 1]) : docs[doc_id + 1][k] = term})

\* the doc ids of the posting list of term
posting_docs(docs, term) == {d \in 0..(Len(docs) - 1) : term_freq(docs, term, d) > 0}

\* the BM25 score of term in doc: kept as the arguments it is computed from
\* (tf, the field norm dl, df and N), so that equal scores are equal records
bm25(docs, term, doc_id) ==
    [term |-> term,
     tf |-> term_freq(docs, term, doc_id),
     fieldnorm |-> Len(docs[doc_id + 1]),
     doc_freq |-> Cardinality(posting_docs(docs, term)),
     num_docs |-> Len(docs)]

\* TermScorer: the docs of the term in order, each with its score; a score
\* is the sequence of the term scores that are summed
RECURSIVE term_scorer_from(_, _, _)
term_scorer_from(docs, term, doc_id) ==
    IF doc_id >= Len(docs) THEN <<>>
    ELSE IF term_freq(docs, term, doc_id) > 0
         THEN <<[doc |-> doc_id, score |-> <<bm25(docs, term, doc_id)>>]>>
              \o term_scorer_from(docs, term, doc_id + 1)
         ELSE term_scorer_from(docs, term, doc_id + 1)

term_scorer(docs, term) == term_scorer_from(docs, term, 0)

\* DocSet::seek: skip to the first doc >= target
RECURSIVE seek(_, _)
seek(scorer, target) ==
    IF scorer = <<>> THEN <<>>
    ELSE IF scorer[1].doc >= target THEN scorer
         ELSE seek(Tail(scorer), target)

\* Intersection: seek every docset to the candidate, resync to the larger doc
\* on a disagreement; the score is the sum of the children's scores
RECURSIVE intersection(_, _)
intersection(left, right) ==
    IF left = <<>> \/ right = <<>> THEN <<>>
    ELSE IF left[1].doc = right[1].doc
         THEN <<[doc |-> left[1].doc, score |-> left[1].score \o right[1].score]>>
              \o intersection(Tail(left), Tail(right))
         ELSE IF left[1].doc < right[1].doc
              THEN intersection(seek(left, right[1].doc), right)
              ELSE intersection(left, seek(right, left[1].doc))

\* Union: pop all the heads equal to the smallest doc; the score is the sum
\* of the children on that doc
RECURSIVE union(_, _)
union(left, right) ==
    IF left = <<>> THEN right
    ELSE IF right = <<>> THEN left
    ELSE IF left[1].doc = right[1].doc
         THEN <<[doc |-> left[1].doc, score |-> left[1].score \o right[1].score]>>
              \o union(Tail(left), Tail(right))
         ELSE IF left[1].doc < right[1].doc
              THEN <<left[1]>> \o union(Tail(left), right)
              ELSE <<right[1]>> \o union(left, Tail(right))

\* faulty variant: a doc of the required scorer that the optional scorer
\* does not hold is dropped
RECURSIVE required_optional_as_intersection(_, _)
required_optional_as_intersection(req, opt) ==
    IF req = <<>> THEN <<>>
    ELSE LET probe == seek(opt, req[1].doc)
         IN  IF probe # <<>> /\ probe[1].doc = req[1].doc
             THEN <<[doc |-> req[1].doc, score |-> req[1].score \o probe[1].score]>>
                  \o required_optional_as_intersection(Tail(req), probe)
             ELSE required_optional_as_intersection(Tail(req), probe)

\* RequiredOptionalScorer: driven by req; opt is probed with seek and adds
\* its score when it is on the same doc
RECURSIVE required_optional(_, _)
required_optional(req, opt) ==
    IF req = <<>> THEN <<>>
    ELSE LET probe == seek(opt, req[1].doc)
         IN  IF probe # <<>> /\ probe[1].doc = req[1].doc
             THEN <<[doc |-> req[1].doc, score |-> req[1].score \o probe[1].score]>>
                  \o required_optional(Tail(req), probe)
             ELSE <<req[1]>> \o required_optional(Tail(req), probe)

\* faulty variant: the filter does not hand on the score of the underlying scorer
RECURSIVE exclude_without_score(_, _)
exclude_without_score(underlying, excluding) ==
    IF underlying = <<>> THEN <<>>
    ELSE LET probe == seek(excluding, underlying[1].doc)
         IN  IF probe # <<>> /\ probe[1].doc = underlying[1].doc
             THEN exclude_without_score(Tail(underlying), probe)
             ELSE <<[doc |-> underlying[1].doc, score |-> <<>>]>>
                  \o exclude_without_score(Tail(underlying), probe)

\* Exclude (MustNot): advance the underlying scorer and advance again while
\* the excluding docset holds its doc; the score is the underlying score
RECURSIVE exclude(_, _)
exclude(underlying, excluding) ==
    IF underlying = <<>> THEN <<>>
    ELSE LET probe == seek(excluding, underlying[1].doc)
         IN  IF probe # <<>> /\ probe[1].doc = underlying[1].doc
             THEN exclude(Tail(underlying), probe)
             ELSE <<underlying[1]>> \o exclude(Tail(underlying), probe)

\* the term scorers of the clauses with the given Occur, in clause order
RECURSIVE scorers_of(_, _, _)
scorers_of(docs, clauses, occur) ==
    IF clauses = <<>> THEN <<>>
    ELSE IF clauses[1][1] = occur
         THEN <<term_scorer(docs, clauses[1][2])>> \o scorers_of(docs, Tail(clauses), occur)
         ELSE scorers_of(docs, Tail(clauses), occur)

RECURSIVE intersect_scorers(_)
intersect_scorers(scorers) ==
    IF Len(scorers) = 1 THEN scorers[1]
    ELSE intersection(scorers[1], intersect_scorers(Tail(scorers)))

RECURSIVE scorer_union(_)
scorer_union(scorers) ==
    IF Len(scorers) = 1 THEN scorers[1]
    ELSE union(scorers[1], scorer_union(Tail(scorers)))

\* BooleanWeight::scorer: MUST clauses intersect, SHOULD clauses unite, a
\* query without MUST and SHOULD matches nothing, MUST_NOT filters the result
boolean_weight_scorer(docs, clauses) ==
    LET must == scorers_of(docs, clauses, "Must")
        should == scorers_of(docs, clauses, "Should")
        must_not == scorers_of(docs, clauses, "MustNot")
        positive ==
            IF must # <<>> /\ should # <<>>
            THEN required_optional(intersect_scorers(must), scorer_union(should))
            ELSE IF must # <<>> THEN intersect_scorers(must)
            ELSE IF should # <<>> THEN scorer_union(should)
            ELSE <<>>
    IN  IF must_not # <<>> /\ positive # <<>>
        THEN exclude(positive, scorer_union(must_not))
        ELSE positive

\* the queries of 1..MaxClauses term clauses over the terms of a segment
Queries(docs) ==
    UNION {[1..n -> Occur \X segment_terms(docs)] : n \in 1..MaxClauses}

\* a segment of the tests and a query BooleanQuery::new(clauses) over its terms
InitBoolVars ==
    /\ segment_docs \in TestSegments
    /\ bq_clauses \in Queries(segment_docs)
    /\ bq_searched = FALSE
    /\ bq_collected = <<>>

IdleBoolVars ==
    /\ segment_docs = <<>>
    /\ bq_clauses = <<>>
    /\ bq_searched = FALSE
    /\ bq_collected = <<>>

\* Searcher::search(&boolean_query, &collector): the collector receives
\* every doc of the scorer, in the order the scorer emits them
search ==
    /\ ~bq_searched
    /\ bq_clauses # <<>>
    /\ bq_searched' = TRUE
    /\ bq_collected' = boolean_weight_scorer(segment_docs, bq_clauses)
    /\ UNCHANGED <<segment_docs, bq_clauses>>
    /\ UNCHANGED notBoolVars

-----------------------------------------------------------------------------
(* Term: [field id: 4 bytes BE | type code: 1 byte | value bytes] *)

\* The number of bytes used as metadata by Term
TERM_METADATA_LENGTH == 5

\* Field ids; 16909060 is 0x01020304
Fields == {0, 1, 258, 16909060}

\* the value types that are modelled, and values of each; a u64 is a
\* number below 2^31, an i64 and the microseconds of a Date are in the
\* 32-bit range
FastTypes == {"U64", "I64", "Bool", "Date"}

FastValues(typ) ==
    CASE typ = "U64" -> {0, 1, 4, 255, 256, 983, 65535, 65536, 2147483647}
      [] typ = "I64" -> {-2147483647, -65536, -256, -4, -1, 0, 1, 4, 300, 65536, 2147483647}
      [] typ = "Bool" -> BOOLEAN
      [] typ = "Date" -> {-1500000, -1000000, -1, 0, 999999, 1000000, 1500000}

\* Type::to_code: 'u', 'i', 'o', 'd', 's' and 'j'
to_code(typ) ==
    CASE typ = "U64" -> 117
      [] typ = "I64" -> 105
      [] typ = "Bool" -> 111
      [] typ = "Date" -> 100
      [] typ = "Str" -> 115
      [] typ = "Json" -> 106

\* Type::from_code
from_code(code) ==
    IF \E typ \in FastTypes \cup {"Str", "Json"} : to_code(typ) = code
    THEN SomeV(CHOOSE typ \in FastTypes \cup {"Str", "Json"} : to_code(typ) = code)
    ELSE NoneV

\* a 64-bit word is held as four 16-bit limbs, the most significant first;
\* n as u64 (for an i64 n: its two's complement)
word_of_int(n) ==
    IF n >= 0 THEN <<0, 0, n \div 65536, n % 65536>>
    ELSE LET low == (n + 2147483647) + 1
         IN  <<65535, 65535, 32768 + (low \div 65536), low % 65536>>

\* the number a word stands for, read as an i64 (a u64 below 2^31 reads the same)
int_of_word(w) ==
    IF w[1] = 0 THEN w[3] * 65536 + w[4]
    ELSE (w[3] - 65536) * 65536 + w[4]

\* common::i64_to_u64 and u64_to_i64: both flip the sign bit
flip_sign_bit(w) == <<(w[1] + 32768) % 65536, w[2], w[3], w[4]>>

\* FastValue::to_u64: the order-preserving u64 projection of a value
to_u64(typ, val) ==
    CASE typ = "U64" -> word_of_int(val)
      [] typ = "I64" -> flip_sign_bit(word_of_int(val))
      [] typ = "Bool" -> word_of_int(IF val THEN 1 ELSE 0)
      [] typ = "Date" -> flip_sign_bit(word_of_int(val))

\* FastValue::from_u64
from_u64(typ, w) ==
    CASE typ = "U64" -> int_of_word(w)
      [] typ = "I64" -> int_of_word(flip_sign_bit(w))
      [] typ = "Bool" -> w # <<0, 0, 0, 0>>
      [] typ = "Date" -> int_of_word(flip_sign_bit(w))

\* u32::to_be_bytes of a field id
u32_to_be_bytes(n) ==
    <<(n \div 16777216) % 256, (n \div 65536) % 256, (n \div 256) % 256, n % 256>>

\* faulty variant: the least significant byte first
to_le_bytes(w) ==
    <<w[4] % 256, w[4] \div 256, w[3] % 256, w[3] \div 256,
      w[2] % 256, w[2] \div 256, w[1] % 256, w[1] \div 256>>

\* u64::to_be_bytes
to_be_bytes(w) ==
    <<w[1] \div 256, w[1] % 256, w[2] \div 256, w[2] % 256,
      w[3] \div 256, w[3] % 256, w[4] \div 256, w[4] % 256>>

\* u64::from_be_bytes
from_be_bytes(bytes) ==
    <<bytes[1] * 256 + bytes[2], bytes[3] * 256 + bytes[4],
      bytes[5] * 256 + bytes[6], bytes[7] * 256 + bytes[8]>>

\* DateTime::truncate(DatePrecision::Seconds); i64 division rounds towards zero
truncate_seconds(timestamp_micros) ==
    IF timestamp_micros >= 0 THEN (timestamp_micros \div 1000000) * 1000000
    ELSE -(((-timestamp_micros) \div 1000000) * 1000000)

\* Term::with_type_and_field: five metadata bytes, set_field_and_type
with_type_and_field(typ, field_id) == u32_to_be_bytes(field_id) \o <<to_code(typ)>>

\* Term::truncate_value_bytes
truncate_value_bytes(t, length) ==
    SubSeq(t, 1, IF length + TERM_METADATA_LENGTH < Len(t)
                 THEN length + TERM_METADATA_LENGTH ELSE Len(t))

\* Term::set_bytes (set_u64, set_i64, set_bool go through set_fast_value to it)
set_bytes(t, bytes) == truncate_value_bytes(t, 0) \o bytes

\* Term::from_fast_value
from_fast_value(field_id, typ, val) ==
    set_bytes(with_type_and_field(typ, field_id), to_be_bytes(to_u64(typ, val)))

\* Term::value_bytes
value_bytes(t) == SubSeq(t, TERM_METADATA_LENGTH + 1, Len(t))

\* Term::field
field(t) == ((t[1] * 256 + t[2]) * 256 + t[3]) * 256 + t[4]

\* Term::typ
typ_of(t) == from_code(t[5]).val

\* Term::get_fast_type (as_u64, as_i64, as_bool, as_date)
get_fast_type(t, typ) ==
    IF typ_of(t) # typ THEN NoneV
    ELSE IF Len(value_bytes(t)) # 8 THEN NoneV
    ELSE SomeV(from_u64(typ, from_be_bytes(value_bytes(t))))

\* faulty variant: the bytes are compared as signed bytes
RECURSIVE cmp_signed_bytes(_, _)
cmp_signed_bytes(a, b) ==
    LET i8(x) == IF x >= 128 THEN x - 256 ELSE x
    IN  IF a = <<>> /\ b = <<>> THEN "Equal"
        ELSE IF a = <<>> THEN "Less"
        ELSE IF b = <<>> THEN "Greater"
        ELSE IF i8(a[1]) < i8(b[1]) THEN "Less"
        ELSE IF i8(a[1]) > i8(b[1]) THEN "Greater"
        ELSE cmp_signed_bytes(Tail(a), Tail(b))

\* Ord for Term: the comparison of the byte slices
RECURSIVE cmp(_, _)
cmp(a, b) ==
    IF a = <<>> /\ b = <<>> THEN "Equal"
    ELSE IF a = <<>> THEN "Less"
    ELSE IF b = <<>> THEN "Greater"
    ELSE IF a[1] < b[1] THEN "Less"
    ELSE IF a[1] > b[1] THEN "Greater"
    ELSE cmp(Tail(a), Tail(b))

InitTermVars ==
    /\ term_built = <<>>
    /\ built_from = NoneV
    /\ term_before = <<>>
    /\ before_from = NoneV

IdleTermVars ==
    /\ term_built = <<>>
    /\ built_from = [some |-> FALSE, idle |-> TRUE]
    /\ term_before = <<>>
    /\ before_from = NoneV

\* a Term is built; the one built before is kept to compare them
build_term(field_id, typ, val) ==
    /\ term_built' = from_fast_value(field_id, typ, val)
    /\ built_from' = SomeV([field |-> field_id, typ |-> typ, val |-> val])
    /\ term_before' = term_built
    /\ before_from' = built_from
    /\ UNCHANGED notTermVars

\* Term::from_field_u64
from_field_u64 == \E field_id \in Fields, val \in FastValues("U64") : build_term(field_id, "U64", val)

\* Term::from_field_i64
from_field_i64 == \E field_id \in Fields, val \in FastValues("I64") : build_term(field_id, "I64", val)

\* Term::from_field_bool
from_field_bool == \E field_id \in Fields, val \in FastValues("Bool") : build_term(field_id, "Bool", val)

\* Term::from_field_date: from_fast_value of the date truncated to the
\* second; val is the value the term holds, date the one that was given
from_field_date ==
    \E field_id \in Fields, date \in FastValues("Date") :
        /\ term_built' = from_fast_value(field_id, "Date", truncate_seconds(date))
        /\ built_from' = SomeV([field |-> field_id, typ |-> "Date",
                                val |-> truncate_seconds(date),
                                op |-> "from_field_date", date |-> date])
        /\ term_before' = term_built
        /\ before_from' = built_from
        /\ UNCHANGED notTermVars

\* Term::set_date on a Date term: set_fast_value, that is set_bytes of the
\* big-endian u64 projection of the date as it is given
set_date ==
    /\ built_from.some
    /\ typ_of(term_built) = "Date"
    /\ \E date \in FastValues("Date") :
        /\ term_built' = set_bytes(term_built, to_be_bytes(to_u64("Date", date)))
        /\ built_from' = SomeV([field |-> field(term_built), typ |-> "Date",
                                val |-> date, op |-> "set_date", date |-> date])
        /\ term_before' = term_built
        /\ before_from' = built_from
        /\ UNCHANGED notTermVars

-----------------------------------------------------------------------------
(* JsonTermWriter: the path of a JSON leaf and its value in one term buffer *)

\* Separates the different segments of the json path
JSON_PATH_SEGMENT_SEP == 1

\* Separates the json path and the value in a JSON term
JSON_END_OF_PATH == 0

\* the number of segments that are open at a time
MaxPathDepth == 3

\* path segments: "a", "b", "a.b", "color", the empty segment, and the key
\* "a\u0001b" of a JSON object, which holds the separator byte
Segments == {<<97>>, <<98>>, <<97, 46, 98>>, <<99, 111, 108, 111, 114>>, <<>>,
             <<97, JSON_PATH_SEGMENT_SEP, 98>>}

\* the leaf values that are set: -4i64, 400i64, 4u64, true, and two dates
\* that are not on a whole second
JsonFastValues ==
    {<<"I64", -4>>, <<"I64", 400>>, <<"U64", 4>>, <<"Bool", TRUE>>,
     <<"Date", 1500000>>, <<"Date", -1500000>>}

\* the text "red"
JsonTexts == {<<114, 101, 100>>}

\* the first position of a byte in bytes, if any
first_position(bytes, byte) ==
    IF \E i \in 1..Len(bytes) : bytes[i] = byte
    THEN SomeV(CHOOSE i \in 1..Len(bytes) :
                   bytes[i] = byte /\ \A j \in 1..(i - 1) : bytes[j] # byte)
    ELSE NoneV

\* as_json_path_type_value_bytes of the value bytes of a term: the path up
\* to the first JSON_END_OF_PATH (it must be UTF-8: the bytes here are
\* ASCII or not UTF-8), the type after it, and the rest
as_json_path_type_value_bytes(bytes) ==
    LET pos == first_position(bytes, JSON_END_OF_PATH)
    IN  IF ~pos.some THEN NoneV
        ELSE IF \E i \in 1..(pos.val - 1) : bytes[i] >= 128 THEN NoneV
        ELSE IF pos.val + 1 > Len(bytes) THEN NoneV
        ELSE IF ~from_code(bytes[pos.val + 1]).some THEN NoneV
        ELSE SomeV([json_path |-> SubSeq(bytes, 1, pos.val - 1),
                    typ |-> from_code(bytes[pos.val + 1]).val,
                    value_bytes |-> SubSeq(bytes, pos.val + 2, Len(bytes))])

\* JsonTermWriter::wrap: term_buffer.clear_with_type(Type::Json), path_stack = [0]
wrap(term_buffer, expand_dots_enabled) ==
    [term_buffer |-> SubSeq(truncate_value_bytes(term_buffer, 0), 1, 4) \o <<to_code("Json")>>,
     path_stack |-> <<0>>,
     expand_dots_enabled |-> expand_dots_enabled,
     panicked |-> FALSE]

\* faulty variant: the bytes after the end of the path are kept
trim_to_end_of_path_keeping_value(w) == w

\* JsonTermWriter::trim_to_end_of_path
trim_to_end_of_path(w) ==
    [w EXCEPT !.term_buffer = truncate_value_bytes(@, w.path_stack[Len(w.path_stack)])]

\* faulty variant: the end of the path is appended after the separator
close_path_keeping_separator(w, typ) ==
    LET trimmed == trim_to_end_of_path(w)
    IN  IF Len(value_bytes(trimmed.term_buffer)) = 0
        THEN [w EXCEPT !.panicked = TRUE]
        ELSE [trimmed EXCEPT !.term_buffer = @ \o <<JSON_END_OF_PATH, to_code(typ)>>]

\* JsonTermWriter::close_path_and_set_type: buffer[buffer_len - 1] is out of
\* bounds, a panic, when no path segment is open
close_path_and_set_type(w, typ) ==
    LET trimmed == trim_to_end_of_path(w)
    IN  IF Len(value_bytes(trimmed.term_buffer)) = 0
        THEN [w EXCEPT !.panicked = TRUE]
        ELSE [trimmed EXCEPT
                 !.term_buffer = [@ EXCEPT ![Len(@)] = JSON_END_OF_PATH] \o <<to_code(typ)>>]

\* faulty variant: the '.' bytes are kept
replace_dots_keeping_dots(segment) == segment

\* the for_each of push_path_segment: every '.' becomes JSON_PATH_SEGMENT_SEP
replace_dots(segment) ==
    [i \in 1..Len(segment) |-> IF segment[i] = 46 THEN JSON_PATH_SEGMENT_SEP ELSE segment[i]]

\* faulty variant: the offset is recorded before the separator is pushed
push_path_segment_offset_before_sep(w, segment) ==
    LET trimmed == trim_to_end_of_path(w).term_buffer
        separated == IF Len(w.path_stack) > 1
                     THEN [trimmed EXCEPT ![Len(trimmed)] = JSON_PATH_SEGMENT_SEP]
                     ELSE trimmed
        appended == separated \o segment
    IN  [w EXCEPT !.term_buffer = appended \o <<JSON_PATH_SEGMENT_SEP>>,
                  !.path_stack = Append(@, Len(appended) - TERM_METADATA_LENGTH)]

\* JsonTermWriter::push_path_segment
push_path_segment(w, segment) ==
    LET trimmed == trim_to_end_of_path(w).term_buffer
        separated == IF Len(w.path_stack) > 1
                     THEN [trimmed EXCEPT ![Len(trimmed)] = JSON_PATH_SEGMENT_SEP]
                     ELSE trimmed
        appended == IF w.expand_dots_enabled /\ \E i \in 1..Len(segment) : segment[i] = 46
                    THEN separated \o replace_dots(segment)
                    ELSE separated \o segment
        pushed == appended \o <<JSON_PATH_SEGMENT_SEP>>
    IN  [w EXCEPT !.term_buffer = pushed,
                  !.path_stack = Append(@, Len(pushed) - TERM_METADATA_LENGTH)]

\* faulty variant: the last entry of the path_stack stays
pop_path_segment_leaving_stack(w) == trim_to_end_of_path(w)

\* JsonTermWriter::pop_path_segment: the assert panics on an empty stack
pop_path_segment(w) ==
    LET popped == SubSeq(w.path_stack, 1, Len(w.path_stack) - 1)
    IN  IF popped = <<>> THEN [w EXCEPT !.path_stack = popped, !.panicked = TRUE]
        ELSE trim_to_end_of_path([w EXCEPT !.path_stack = popped])

\* JsonTermWriter::path: end_of_path - 1 underflows, a panic, when no
\* path segment is open
path(w) ==
    LET end_of_path == w.path_stack[Len(w.path_stack)]
    IN  IF end_of_path = 0 THEN [panicked |-> TRUE]
        ELSE [panicked |-> FALSE,
              bytes |-> SubSeq(value_bytes(w.term_buffer), 1, end_of_path - 1)]

\* JsonTermWriter::set_fast_value: a Date is truncated to the second
set_fast_value(w, typ, val) ==
    LET closed == close_path_and_set_type(w, typ)
        value == IF typ = "Date"
                 THEN to_u64(typ, truncate_seconds(from_u64(typ, to_u64(typ, val))))
                 ELSE to_u64(typ, val)
    IN  IF closed.panicked THEN closed
        ELSE [closed EXCEPT !.term_buffer = @ \o to_be_bytes(value)]

\* JsonTermWriter::set_str
set_str(w, text) ==
    LET closed == close_path_and_set_type(w, "Str")
    IN  IF closed.panicked THEN closed
        ELSE [closed EXCEPT !.term_buffer = @ \o text]

\* Term::with_type_and_field(Type::Json, field) and JsonTermWriter::wrap
InitJsonVars ==
    /\ json_field \in {1, 258}
    /\ \E expand_dots_enabled \in BOOLEAN :
           json_term_writer = wrap(with_type_and_field("Json", json_field), expand_dots_enabled)
    /\ open_segments = <<>>
    /\ json_last_call = [op |-> "wrap"]

IdleJsonVars ==
    /\ json_term_writer = <<>>
    /\ json_field = 0
    /\ open_segments = <<>>
    /\ json_last_call = [op |-> "idle"]

PushPathSegment ==
    /\ json_last_call.op # "idle"
    /\ ~json_term_writer.panicked
    /\ Len(open_segments) < MaxPathDepth
    /\ \E segment \in Segments :
        /\ json_term_writer' = push_path_segment(json_term_writer, segment)
        /\ open_segments' = Append(open_segments, segment)
        /\ json_last_call' = [op |-> "push_path_segment", segment |-> segment]
    /\ UNCHANGED json_field
    /\ UNCHANGED notJsonVars

PopPathSegment ==
    /\ json_last_call.op # "idle"
    /\ ~json_term_writer.panicked
    /\ json_term_writer' = pop_path_segment(json_term_writer)
    /\ open_segments' = SubSeq(open_segments, 1, Len(open_segments) - 1)
    /\ json_last_call' = [op |-> "pop_path_segment", popped |-> open_segments]
    /\ UNCHANGED json_field
    /\ UNCHANGED notJsonVars

ClosePathAndSetType ==
    /\ json_last_call.op # "idle"
    /\ ~json_term_writer.panicked
    /\ \E typ \in {"Str", "I64"} :
        /\ json_term_writer' = close_path_and_set_type(json_term_writer, typ)
        /\ json_last_call' = [op |-> "close_path_and_set_type", typ |-> typ]
    /\ UNCHANGED <<json_field, open_segments>>
    /\ UNCHANGED notJsonVars

SetFastValue ==
    /\ json_last_call.op # "idle"
    /\ ~json_term_writer.panicked
    /\ \E tv \in JsonFastValues :
        /\ json_term_writer' = set_fast_value(json_term_writer, tv[1], tv[2])
        /\ json_last_call' = [op |-> "set_fast_value", typ |-> tv[1], val |-> tv[2],
                             before |-> json_term_writer.term_buffer]
    /\ UNCHANGED <<json_field, open_segments>>
    /\ UNCHANGED notJsonVars

SetStr ==
    /\ json_last_call.op # "idle"
    /\ ~json_term_writer.panicked
    /\ \E text \in JsonTexts :
        /\ json_term_writer' = set_str(json_term_writer, text)
        /\ json_last_call' = [op |-> "set_str", text |-> text,
                             before |-> json_term_writer.term_buffer]
    /\ UNCHANGED <<json_field, open_segments>>
    /\ UNCHANGED notJsonVars

-----------------------------------------------------------------------------
(* The postings accumulator fed by index_json_values                       *)
(* (indexer/json_term_writer.rs lines 14-185).  The recorder behind        *)
(* PostingsWriter::subscribe and index_text, the tokenizer and the hash    *)
(* function are not among the sources at hand: they follow spec 4.2, and   *)
(* a text value is given as the token stream the tokenizer makes of it.    *)

MaxSegmentDocs == 3

\* spec 4.2: a later value of a path starts at last_position + POSITION_GAP
POSITION_GAP == 2

JsonField == 1

\* serde_json::Value
Null == [kind |-> "Null"]

Bool(val) == [kind |-> "Bool", val |-> val]

Number(val) == [kind |-> "Number", val |-> val]

\* a string that is no RFC 3339 date-time, as the tokens the tokenizer makes of it
Text(tokens) == [kind |-> "String", rfc3339 |-> NoneV, tokens |-> tokens]

\* a string that OffsetDateTime::parse reads as an RFC 3339 date-time: the
\* microseconds of the date in UTC
DateString(timestamp_micros) ==
    [kind |-> "String", rfc3339 |-> SomeV(timestamp_micros), tokens |-> <<>>]

Array(items) == [kind |-> "Array", items |-> items]

Object(entries) == [kind |-> "Object", entries |-> entries]

Token(text, position) == [text |-> text, position |-> position]

elliot == <<101, 108, 108, 105, 111, 116>>

smith == <<115, 109, 105, 116, 104>>

the == <<116, 104, 101>>

who == <<119, 104, 111>>

bands == <<98, 97, 110, 100, 115>>

name == <<110, 97, 109, 101>>

\* the json values of one document: the objects given for its JSON field
Documents ==
    << \* {"bands": [{"name": "Elliot Smith"}, {"name": "The Who"}]}
       << Object(<< <<bands, Array(<<
              Object(<< <<name, Text(<<Token(elliot, 0), Token(smith, 1)>>)>> >>),
              Object(<< <<name, Text(<<Token(the, 0), Token(who, 1)>>)>> >>) >>)>> >>) >>,
       \* {"a": [1, 1, -4], "b": true, "name": null}
       << Object(<< <<<<97>>, Array(<<Number(1), Number(1), Number(-4)>>)>>,
                    <<<<98>>, Bool(TRUE)>>,
                    <<name, Null>> >>) >>,
       \* {"bands": {"name": "The Who"}, "a": "Who The Who"}
       << Object(<< <<bands, Object(<< <<name, Text(<<Token(the, 0), Token(who, 1)>>)>> >>)>>,
                    <<<<97>>, Text(<<Token(who, 0), Token(the, 1), Token(who, 2)>>)>> >>) >>,
       \* two objects for the field: {"a": "The Who"} and {"a": ["Smith", "", "The"]}
       << Object(<< <<<<97>>, Text(<<Token(the, 0), Token(who, 1)>>)>> >>),
          Object(<< <<<<97>>, Array(<<Text(<<Token(smith, 0)>>), Text(<<>>),
                                      Text(<<Token(the, 0)>>)>>)>> >>) >>,
       \* {"a": <a token stream whose positions go back>, "name": "The"}
       << Object(<< <<<<97>>, Text(<<Token(the, 0), Token(who, 1), Token(who, 0),
                                     Token(smith, 2)>>)>>,
                    <<name, Text(<<Token(the, 0)>>)>> >>) >>,
       \* {"a": [[1], [true, [null, -4]]], "b": ["1970-01-01T00:00:01.5Z", [["The"]]]}
       << Object(<< <<<<97>>, Array(<<Array(<<Number(1)>>),
                                      Array(<<Bool(TRUE),
                                              Array(<<Null, Number(-4)>>)>>)>>)>>,
                    <<<<98>>, Array(<<DateString(1500000),
                                      Array(<<Array(<<Text(<<Token(the, 0)>>)>>)>>)>>)>> >>) >> >>

\* a map with one entry written
put(map, key, value) ==
    [k \in (DOMAIN map) \cup {key} |-> IF k = key THEN value ELSE map[k]]

EmptyMap == [k \in {} |-> 0]

\* the faulty variant: a lower position is recorded like any other
record_unchecked(postings, doc_id, term_bytes, position) ==
    IF term_bytes \notin DOMAIN postings
    THEN [ok |-> TRUE,
          postings |-> put(postings, term_bytes,
              [doc_deltas |-> <<doc_id - 0>>, term_freqs |-> <<>>,
               position_deltas |-> <<position - 0>>,
               last_doc |-> doc_id, current_tf |-> 1, last_position |-> position])]
    ELSE LET s == postings[term_bytes]
         IN  IF s.last_doc # doc_id
             THEN [ok |-> TRUE,
                   postings |-> put(postings, term_bytes,
                       [doc_deltas |-> Append(s.doc_deltas, doc_id - s.last_doc),
                        term_freqs |-> Append(s.term_freqs, s.current_tf),
                        position_deltas |-> Append(s.position_deltas, position - 0),
                        last_doc |-> doc_id, current_tf |-> 1, last_position |-> position])]
             ELSE [ok |-> TRUE,
                   postings |-> put(postings, term_bytes,
                       [s EXCEPT !.current_tf = @ + 1,
                                 !.position_deltas = Append(@, position - s.last_position),
                                 !.last_position = position])]

\* record(doc, term, position) on the PerTermState of the term: the lists of
\* doc-id deltas, term frequencies and position deltas, and the cache
\* (last_doc, current_tf, last_position)
record(postings, doc_id, term_bytes, position) ==
    IF term_bytes \notin DOMAIN postings
    THEN \* first occurrence of the term
         [ok |-> TRUE,
          postings |-> put(postings, term_bytes,
              [doc_deltas |-> <<doc_id - 0>>, term_freqs |-> <<>>,
               position_deltas |-> <<position - 0>>,
               last_doc |-> doc_id, current_tf |-> 1, last_position |-> position])]
    ELSE LET s == postings[term_bytes]
         IN  IF s.last_doc # doc_id
             THEN \* first occurrence in a new doc: the prior doc's tf is flushed
                  [ok |-> TRUE,
                   postings |-> put(postings, term_bytes,
                       [doc_deltas |-> Append(s.doc_deltas, doc_id - s.last_doc),
                        term_freqs |-> Append(s.term_freqs, s.current_tf),
                        position_deltas |-> Append(s.position_deltas, position - 0),
                        last_doc |-> doc_id, current_tf |-> 1, last_position |-> position])]
             ELSE IF position < s.last_position
             THEN [ok |-> FALSE, error |-> "PositionNonIncreasing", postings |-> postings]
             ELSE [ok |-> TRUE,
                   postings |-> put(postings, term_bytes,
                       [s EXCEPT !.current_tf = @ + 1,
                                 !.position_deltas = Append(@, position - s.last_position),
                                 !.last_position = position])]

RECURSIVE prefix_sums(_, _)
prefix_sums(deltas, from) ==
    IF deltas = <<>> THEN <<>>
    ELSE <<from + deltas[1]>> \o prefix_sums(Tail(deltas), from + deltas[1])

RECURSIVE total(_)
total(numbers) == IF numbers = <<>> THEN 0 ELSE numbers[1] + total(Tail(numbers))

\* the posting list read back from the three lists of a PerTermState:
\* one entry (doc, term frequency, positions) per doc
decode(s) ==
    LET docs == prefix_sums(s.doc_deltas, 0)
        tfs == Append(s.term_freqs, s.current_tf)
        start(k) == total(SubSeq(tfs, 1, k - 1))
    IN  [k \in 1..Len(docs) |->
            [doc_id |-> docs[k],
             term_freq |-> tfs[k],
             positions |-> prefix_sums(
                 SubSeq(s.position_deltas, start(k) + 1, start(k) + tfs[k]), 0)]]

\* the hash of the term bytes: a function of the bytes into a range of
\* modulus values, so that with a small modulus different paths collide
RECURSIVE murmurhash2_of_slice(_, _)
murmurhash2_of_slice(bytes, modulus) ==
    IF bytes = <<>> THEN 0
    ELSE (murmurhash2_of_slice(SubSeq(bytes, 1, Len(bytes) - 1), modulus)
              + Len(bytes) * bytes[Len(bytes)]) % modulus

\* IndexingPosition::default()
DefaultIndexingPosition == [num_tokens |-> 0, last_position |-> 0]

\* the faulty variant: every value gets a fresh IndexingPosition
get_position_fresh(positions_per_path, term_bytes, modulus) ==
    DefaultIndexingPosition

\* IndexingPositionsPerPath::get_position: the entry of the hash of the
\* term, a default one when the hash has none yet
get_position(positions_per_path, term_bytes, modulus) ==
    LET h == murmurhash2_of_slice(term_bytes, modulus)
    IN  IF h \in DOMAIN positions_per_path THEN positions_per_path[h]
        ELSE DefaultIndexingPosition

\* the faulty variant: the occurrence is recorded one position later
subscribe_at_next_position(ctx, doc_id, position, term_bytes) ==
    IF ctx.panicked THEN ctx
    ELSE LET recorded == record(ctx.postings, doc_id, term_bytes, position + 1)
         IN  IF recorded.ok THEN [ctx EXCEPT !.postings = recorded.postings]
             ELSE [ctx EXCEPT !.record_failed = TRUE,
                              !.panicked = (ctx.on_failure = "panic")]

\* PostingsWriter::subscribe: the occurrence goes to the recorder.  Its
\* callers in index_json_value take no result from it, so that a failed
\* record either unwinds as a panic or is passed over (on_failure).
subscribe(ctx, doc_id, position, term_bytes) ==
    IF ctx.panicked THEN ctx
    ELSE LET recorded == record(ctx.postings, doc_id, term_bytes, position)
         IN  IF recorded.ok THEN [ctx EXCEPT !.postings = recorded.postings]
             ELSE [ctx EXCEPT !.record_failed = TRUE,
                              !.panicked = (ctx.on_failure = "panic")]

RECURSIVE subscribe_tokens(_, _, _, _, _)
subscribe_tokens(ctx, doc_id, tokens, term_buffer, offset) ==
    IF tokens = <<>> THEN ctx
    ELSE subscribe_tokens(
             subscribe(ctx, doc_id, offset + tokens[1].position,
                       term_buffer \o tokens[1].text),
             doc_id, Tail(tokens), term_buffer, offset)

\* PostingsWriter::index_text: every token is the path term plus the token
\* text, at the token's position behind what the IndexingPosition holds
index_text(ctx, doc_id, tokens, term_buffer, indexing_position) ==
    LET offset == IF indexing_position.num_tokens = 0 THEN 0
                  ELSE indexing_position.last_position + POSITION_GAP
    IN  [ctx |-> subscribe_tokens(ctx, doc_id, tokens, term_buffer, offset),
         indexing_position |->
             IF tokens = <<>> THEN indexing_position
             ELSE [num_tokens |-> indexing_position.num_tokens + Len(tokens),
                   last_position |-> offset + tokens[Len(tokens)].position]]

\* the path bytes of the writer: the value bytes before the end of the path
path_bytes(w) ==
    SubSeq(value_bytes(w.term_buffer), 1, w.path_stack[Len(w.path_stack)] - 1)

\* history: the call that began with the writer of entered returns with the
\* same path_stack and the same path bytes
returned(entered, ctx) ==
    IF ctx.panicked THEN ctx
    ELSE [ctx EXCEPT !.balanced =
             @ /\ ctx.writer.path_stack = entered.writer.path_stack
               /\ path_bytes(ctx.writer) = path_bytes(entered.writer)]

\* history: close_path_and_set_type was called and gave the writer w
closed(ctx, w) ==
    [ctx EXCEPT !.writer = w,
                !.close_depths = @ \cup {Len(ctx.writer.path_stack)}]

RECURSIVE index_json_value(_, _, _)
RECURSIVE index_json_array(_, _, _)
RECURSIVE index_json_object(_, _, _)
index_json_value(ctx, doc_id, json_value) ==
    IF ctx.panicked THEN ctx
    ELSE returned(ctx,
         CASE json_value.kind = "Null" -> ctx
           [] json_value.kind = "Bool" ->
                LET w == set_fast_value(ctx.writer, "Bool", json_value.val)
                IN  subscribe(closed(ctx, w), doc_id, 0, w.term_buffer)
           [] json_value.kind = "Number" ->
                LET w == set_fast_value(ctx.writer,
                                        IF json_value.val >= 0 THEN "U64" ELSE "I64",
                                        json_value.val)
                IN  subscribe(closed(ctx, w), doc_id, 0, w.term_buffer)
           [] json_value.kind = "String" /\ json_value.rfc3339.some ->
                LET w == set_fast_value(ctx.writer, "Date", json_value.rfc3339.val)
                IN  subscribe(closed(ctx, w), doc_id, 0, w.term_buffer)
           [] json_value.kind = "String" /\ ~json_value.rfc3339.some ->
                LET w == close_path_and_set_type(ctx.writer, "Str")
                    indexing_position ==
                        get_position(ctx.positions_per_path, w.term_buffer, ctx.hash_modulus)
                    indexed == index_text(closed(ctx, w), doc_id,
                                          json_value.tokens, w.term_buffer, indexing_position)
                IN  [indexed.ctx EXCEPT !.positions_per_path =
                        put(@, murmurhash2_of_slice(w.term_buffer, ctx.hash_modulus),
                            indexed.indexing_position)]
           [] json_value.kind = "Array" -> index_json_array(ctx, doc_id, json_value.items)
           [] json_value.kind = "Object" -> index_json_object(ctx, doc_id, json_value.entries))

\* the loop of the Array arm of index_json_value
index_json_array(ctx, doc_id, items) ==
    IF items = <<>> THEN ctx
    ELSE index_json_array(index_json_value(ctx, doc_id, items[1]), doc_id, Tail(items))

index_json_object(ctx, doc_id, entries) ==
    IF entries = <<>> \/ ctx.panicked THEN ctx
    ELSE LET pushed == [ctx EXCEPT !.writer = push_path_segment(@, entries[1][1])]
             indexed == index_json_value(pushed, doc_id, entries[1][2])
             popped == IF indexed.panicked THEN indexed
                       ELSE [indexed EXCEPT !.writer = pop_path_segment(@)]
         IN  index_json_object(returned(ctx, popped), doc_id, Tail(entries))

RECURSIVE index_json_objects(_, _, _)
index_json_objects(ctx, doc_id, json_values) ==
    IF json_values = <<>> THEN ctx
    ELSE index_json_objects(index_json_object(ctx, doc_id, json_values[1].entries),
                            doc_id, Tail(json_values))

\* index_json_values: one JsonTermWriter and one IndexingPositionsPerPath
\* for all the json values of the document
index_json_values(doc_id, json_values, expand_dots_enabled, term_buffer, postings, on_failure, modulus) ==
    index_json_objects(
        [writer |-> wrap(term_buffer, expand_dots_enabled),
         positions_per_path |-> EmptyMap,
         postings |-> postings,
         hash_modulus |-> modulus,
         on_failure |-> on_failure,
         record_failed |-> FALSE,
         panicked |-> FALSE,
         balanced |-> TRUE,
         close_depths |-> {}],
        doc_id, json_values)

InitPostingsVars ==
    /\ per_term_state = EmptyMap
    /\ added_docs = <<>>
    /\ hash_modulus \in {1, 251}
    /\ last_add = [op |-> "new", doc_id |-> 0, expand_dots_enabled |-> FALSE,
                   record_failed |-> FALSE, panicked |-> FALSE, result |-> "none",
                   before |-> <<>>, path_stack |-> <<>>, term_buffer |-> <<>>,
                   balanced |-> TRUE, close_depths |-> {}]

IdlePostingsVars ==
    /\ per_term_state = <<>>
    /\ added_docs = <<>>
    /\ hash_modulus = 0
    /\ last_add = [op |-> "idle", doc_id |-> 0, expand_dots_enabled |-> FALSE,
                   record_failed |-> FALSE, panicked |-> FALSE, result |-> "none",
                   before |-> <<>>, path_stack |-> <<>>, term_buffer |-> <<>>,
                   balanced |-> TRUE, close_depths |-> {}]

\* the JSON field of one document is indexed; the document gets the next doc id
IndexJsonValues ==
    /\ last_add.op # "idle"
    /\ ~last_add.panicked
    /\ Len(added_docs) < MaxSegmentDocs
    /\ \E d \in 1..Len(Documents), expand_dots_enabled \in BOOLEAN,
          on_failure \in {"panic", "pass over"} :
        LET doc_id == Len(added_docs)
            ctx == index_json_values(doc_id, Documents[d], expand_dots_enabled,
                                     with_type_and_field("Json", JsonField),
                                     per_term_state, on_failure, hash_modulus)
        IN  /\ per_term_state' = ctx.postings
            /\ added_docs' = Append(added_docs, d)
            /\ last_add' = [op |-> "index_json_values", doc_id |-> doc_id,
                            expand_dots_enabled |-> expand_dots_enabled,
                            record_failed |-> ctx.record_failed,
                            panicked |-> ctx.panicked,
                            result |-> IF ctx.panicked THEN "panic" ELSE "Ok",
                            before |-> per_term_state,
                            path_stack |-> ctx.writer.path_stack,
                            term_buffer |-> ctx.writer.term_buffer,
                            balanced |-> ctx.balanced,
                            close_depths |-> ctx.close_depths]
    /\ UNCHANGED hash_modulus
    /\ UNCHANGED notPostingsVars

-----------------------------------------------------------------------------
(* Reader generations and the garbage collection of segment files.         *)
(* Index, IndexReader, Searcher and the managed directory are not among    *)
(* the sources at hand (core/mod.rs only names them): this part follows    *)
(* spec 2 (ownership and lifecycle) and spec 5 (searching, resource        *)
(* discipline), with the reader of test_searcher_2 (manual reload).        *)
(* A segment is [id, num_docs]; its files are named by its id.             *)

\* segment ids 1..MaxSegmentId are handed out
MaxSegmentId == 3

MaxSearchers == 2

\* the number of documents one commit adds
CommitDocs == {1, 3}

segment_ids(segments) == {seg.id : seg \in segments}

\* Searcher::num_docs
num_docs(segments) ==
    LET RECURSIVE sum_docs(_)
        sum_docs(S) == IF S = {} THEN 0
                       ELSE LET seg == CHOOSE seg \in S : TRUE
                            IN  seg.num_docs + sum_docs(S \ {seg})
    IN  sum_docs(segments)

\* the segment lists of the open reader generations: the current one of the
\* reader and those the live searchers hold
open_generations(pool, held) ==
    {pool} \cup {held[s].val : s \in {s \in DOMAIN held : held[s].some}}

\* the faulty variant: the sweep looks at the meta only
garbage_ignoring_readers(files, meta_segments, generations) ==
    files \ segment_ids(meta_segments)

\* the files a sweep reclaims: those whose segment is absent from the live
\* meta and from every open reader generation
garbage(files, meta_segments, generations) ==
    files \ (segment_ids(meta_segments) \cup UNION {segment_ids(g) : g \in generations})

\* the faulty variant: the reader follows the commit
pool_follows_commit(pool, meta_segments) == meta_segments

\* a commit leaves the reader's generation alone (ReloadPolicy::Manual)
pool_after_commit(pool, meta_segments) == pool

InitReaderVars ==
    /\ managed_files = {}
    /\ live_meta = {}
    /\ next_segment = 1
    /\ reader_pool = {}
    /\ searchers = [s \in 1..MaxSearchers |-> NoneV]
    /\ gc_candidates = NoneV
    /\ metas_published = {{}}
    /\ deleted_files = {}
    /\ reader_last = [op |-> "reader", docs_committed |-> 0]

IdleReaderVars ==
    /\ managed_files = {}
    /\ live_meta = {}
    /\ next_segment = 0
    /\ reader_pool = {}
    /\ searchers = <<>>
    /\ gc_candidates = NoneV
    /\ metas_published = {}
    /\ deleted_files = {}
    /\ reader_last = [op |-> "idle", docs_committed |-> 0]

\* IndexWriter::commit: a new segment is written and the meta lists it
CommitSegment ==
    /\ reader_last.op # "idle"
    /\ next_segment <= MaxSegmentId
    /\ \E n \in CommitDocs :
        /\ live_meta' = live_meta \cup {[id |-> next_segment, num_docs |-> n]}
        /\ reader_last' = [op |-> "commit", docs_committed |-> reader_last.docs_committed + n]
    /\ managed_files' = managed_files \cup {next_segment}
    /\ next_segment' = next_segment + 1
    /\ metas_published' = metas_published \cup {live_meta'}
    /\ reader_pool' = pool_after_commit(reader_pool, live_meta')
    /\ UNCHANGED <<searchers, gc_candidates, deleted_files>>
    /\ UNCHANGED notReaderVars

\* a merge: the merged segments leave the meta, the segment written from
\* them enters it; the files of the merged segments stay in the directory
MergeSegments ==
    /\ reader_last.op # "idle"
    /\ next_segment <= MaxSegmentId
    /\ \E merged \in SUBSET live_meta :
        /\ Cardinality(merged) >= 2
        /\ live_meta' = (live_meta \ merged)
               \cup {[id |-> next_segment, num_docs |-> num_docs(merged)]}
    /\ managed_files' = managed_files \cup {next_segment}
    /\ next_segment' = next_segment + 1
    /\ metas_published' = metas_published \cup {live_meta'}
    /\ reader_last' = [reader_last EXCEPT !.op = "merge"]
    /\ UNCHANGED <<reader_pool, searchers, gc_candidates, deleted_files>>
    /\ UNCHANGED notReaderVars

\* IndexReader::reload: the segment list of the reader is swapped for the meta's
ReloadReader ==
    /\ reader_last.op # "idle"
    /\ reader_pool' = live_meta
    /\ reader_last' = [reader_last EXCEPT !.op = "reload"]
    /\ UNCHANGED <<managed_files, live_meta, next_segment, searchers, gc_candidates,
                   metas_published, deleted_files>>
    /\ UNCHANGED notReaderVars

\* IndexReader::searcher: a searcher on the current generation
AcquireSearcher ==
    /\ reader_last.op # "idle"
    /\ \E s \in 1..MaxSearchers :
        /\ ~searchers[s].some
        /\ searchers' = [searchers EXCEPT ![s] = SomeV(reader_pool)]
    /\ reader_last' = [reader_last EXCEPT !.op = "searcher"]
    /\ UNCHANGED <<managed_files, live_meta, next_segment, reader_pool, gc_candidates,
                   metas_published, deleted_files>>
    /\ UNCHANGED notReaderVars

\* a searcher is dropped: it holds its generation no longer
DropSearcher ==
    /\ reader_last.op # "idle"
    /\ \E s \in 1..MaxSearchers :
        /\ searchers[s].some
        /\ searchers' = [searchers EXCEPT ![s] = NoneV]
    /\ reader_last' = [reader_last EXCEPT !.op = "drop"]
    /\ UNCHANGED <<managed_files, live_meta, next_segment, reader_pool, gc_candidates,
                   metas_published, deleted_files>>
    /\ UNCHANGED notReaderVars

\* the background sweep finds the unreferenced files ...
GcScan ==
    /\ reader_last.op # "idle"
    /\ ~gc_candidates.some
    /\ gc_candidates' = SomeV(garbage(managed_files, live_meta,
                                      open_generations(reader_pool, searchers)))
    /\ reader_last' = [reader_last EXCEPT !.op = "gc_scan"]
    /\ UNCHANGED <<managed_files, live_meta, next_segment, reader_pool, searchers,
                   metas_published, deleted_files>>
    /\ UNCHANGED notReaderVars

\* ... and deletes them, while commits, merges, reloads and searchers go on
GcDelete ==
    /\ gc_candidates.some
    /\ managed_files' = managed_files \ gc_candidates.val
    /\ deleted_files' = deleted_files \cup gc_candidates.val
    /\ gc_candidates' = NoneV
    /\ reader_last' = [reader_last EXCEPT !.op = "gc_delete"]
    /\ UNCHANGED <<live_meta, next_segment, reader_pool, searchers, metas_published>>
    /\ UNCHANGED notReaderVars

-----------------------------------------------------------------------------
(* The indexing workers.  IndexWriter is not among the sources at hand:    *)
(* the workers follow spec 5 (each owns a private in-memory segment, takes *)
(* documents from a bounded channel, serializes its segment to the queue   *)
(* of pending segments when its memory budget is used up; commit waits for *)
(* the workers to quiesce and publishes the pending segments).  A document *)
(* is named by the number of its add_document call.                        *)

MaxAddedDocs == 3

NumWorkers == 2

ChannelCapacity == 2

\* the faulty variant: commit waits for the channel to drain only
quiesced_channel_only(docs_in_channel, segments) == docs_in_channel = <<>>

\* the workers have quiesced: no document is in the channel or in a
\* worker's in-memory segment
quiesced(docs_in_channel, segments) ==
    /\ docs_in_channel = <<>>
    /\ \A w \in DOMAIN segments : segments[w] = {}

InitWorkersVars ==
    /\ channel = <<>>
    /\ worker_segment = [w \in 1..NumWorkers |-> {}]
    /\ pending_segments = {}
    /\ published_segments = {}
    /\ docs_added = 0
    /\ committing = FALSE
    /\ workers_last = [op |-> "writer", before |-> 0]

IdleWorkersVars ==
    /\ channel = <<>>
    /\ worker_segment = <<>>
    /\ pending_segments = {}
    /\ published_segments = {}
    /\ docs_added = 0
    /\ committing = FALSE
    /\ workers_last = [op |-> "idle", before |-> 0]

\* IndexWriter::add_document: the document goes to the channel; the call
\* blocks while the channel is full
SendDocument ==
    /\ workers_last.op # "idle"
    /\ ~committing
    /\ docs_added < MaxAddedDocs
    /\ Len(channel) < ChannelCapacity
    /\ channel' = Append(channel, docs_added + 1)
    /\ docs_added' = docs_added + 1
    /\ workers_last' = [workers_last EXCEPT !.op = "add_document"]
    /\ UNCHANGED <<worker_segment, pending_segments, published_segments, committing>>
    /\ UNCHANGED notWorkersVars

\* a worker takes the next document of the channel into its segment
WorkerIndexes ==
    /\ channel # <<>>
    /\ \E w \in 1..NumWorkers :
          worker_segment' = [worker_segment EXCEPT ![w] = @ \cup {Head(channel)}]
    /\ channel' = Tail(channel)
    /\ workers_last' = [workers_last EXCEPT !.op = "index"]
    /\ UNCHANGED <<pending_segments, published_segments, docs_added, committing>>
    /\ UNCHANGED notWorkersVars

\* a worker serializes its segment (its memory budget is used up, or the
\* writer is committing) and starts a fresh one
WorkerFlushes ==
    /\ \E w \in 1..NumWorkers :
        /\ worker_segment[w] # {}
        /\ pending_segments' = pending_segments \cup {worker_segment[w]}
        /\ worker_segment' = [worker_segment EXCEPT ![w] = {}]
    /\ workers_last' = [workers_last EXCEPT !.op = "flush"]
    /\ UNCHANGED <<channel, published_segments, docs_added, committing>>
    /\ UNCHANGED notWorkersVars

\* IndexWriter::commit is called
CommitCalled ==
    /\ workers_last.op # "idle"
    /\ ~committing
    /\ committing' = TRUE
    /\ workers_last' = [op |-> "commit called", before |-> docs_added]
    /\ UNCHANGED <<channel, worker_segment, pending_segments, published_segments, docs_added>>
    /\ UNCHANGED notWorkersVars

\* IndexWriter::commit returns: the workers have quiesced and the pending
\* segments are published at once
CommitReturns ==
    /\ committing
    /\ quiesced(channel, worker_segment)
    /\ published_segments' = published_segments \cup pending_segments
    /\ pending_segments' = {}
    /\ committing' = FALSE
    /\ workers_last' = [workers_last EXCEPT !.op = "commit returned"]
    /\ UNCHANGED <<channel, worker_segment, docs_added>>
    /\ UNCHANGED notWorkersVars

-----------------------------------------------------------------------------
(* ColumnarReader: columnar/src/columnar/reader/mod.rs *)

MaxNameLen == 2
MaxColumns == 2
MaxColumnTypeCode == 1

\* the bytes of the column names: a letter, and the separator that the
\* names of the columns of a JSON field hold between two path segments
NameBytes == {JSON_PATH_SEGMENT_SEP, 97}

\* the column names, as their UTF-8 bytes; none holds the byte 0, which
\* ends the name in a key
ColumnNames == UNION {[1..n -> NameBytes] : n \in 0..MaxNameLen}

\* the codes of the column types
ColumnTypes == 0..MaxColumnTypeCode

try_from_code(code) ==
    IF code \in ColumnTypes THEN [tag |-> "Ok", column_type |-> code]
                            ELSE [tag |-> "Err"]

\* the key the writer gives a column: field_name || 0x00 || type_code
column_key(column_name, column_type) == column_name \o <<0>> \o <<column_type>>

\* the order of byte strings, the one of the keys of an sstable
RECURSIVE bytes_lt(_, _)
bytes_lt(a, b) ==
    IF b = <<>> THEN FALSE
    ELSE IF a = <<>> THEN TRUE
    ELSE IF Head(a) # Head(b) THEN Head(a) < Head(b)
    ELSE bytes_lt(Tail(a), Tail(b))

starts_with(bytes, prefix) ==
    /\ Len(prefix) <= Len(bytes)
    /\ SubSeq(bytes, 1, Len(prefix)) = prefix

\* String::from_utf8_lossy: a byte that is no UTF-8 is replaced by U+FFFD
from_utf8_lossy(bytes) ==
    [i \in DOMAIN bytes |-> IF bytes[i] < 128 THEN bytes[i] ELSE 65533]

\* Dictionary::stream: the keys in increasing order
RECURSIVE key_stream(_)
key_stream(keys) ==
    IF keys = {} THEN <<>>
    ELSE LET first == CHOOSE k \in keys : \A other \in keys \ {k} : bytes_lt(k, other)
         IN  <<first>> \o key_stream(keys \ {first})

\* Dictionary::range().ge(lower).lt(upper).into_stream()
range_stream(keys, lower, upper) ==
    key_stream({k \in keys : ~bytes_lt(k, lower) /\ bytes_lt(k, upper)})

\* the value of a key: the byte range of its column in column_data; the
\* columns are laid out in the order of the keys
file_slice_of(keys, k) ==
    LET start == Cardinality({other \in keys : bytes_lt(other, k)})
    IN  [start |-> start, end |-> start + 1]

RECURSIVE list_columns_from(_, _, _)
list_columns_from(keys, stream, results) ==
    IF stream = <<>> THEN [tag |-> "Ok", results |-> results]
    ELSE LET key_bytes == Head(stream)
             column_type == try_from_code(key_bytes[Len(key_bytes)])
         IN  IF column_type.tag = "Err" THEN [tag |-> "Err"]
             ELSE list_columns_from(keys, Tail(stream), Append(results,
                      [column_name |-> from_utf8_lossy(SubSeq(key_bytes, 1, Len(key_bytes) - 2)),
                       column_handle |-> [file_slice |-> file_slice_of(keys, key_bytes),
                                          column_type |-> column_type.column_type]]))

list_columns(keys) == list_columns_from(keys, key_stream(keys), <<>>)

RECURSIVE read_columns_from(_, _, _, _)
read_columns_from(keys, stream, start_key, results) ==
    IF stream = <<>> THEN [tag |-> "Ok", results |-> results]
    ELSE LET key_bytes == Head(stream)
             column_type == try_from_code(key_bytes[Len(key_bytes)])
         IN  IF ~starts_with(key_bytes, start_key) THEN [tag |-> "Panic"]
             ELSE IF column_type.tag = "Err" THEN [tag |-> "Err"]
             ELSE read_columns_from(keys, Tail(stream), start_key, Append(results,
                      [file_slice |-> file_slice_of(keys, key_bytes),
                       column_type |-> column_type.column_type]))

\* the faulty variant: the scan ends at column_name || 0x02
read_columns_to_next_byte(keys, column_name) ==
    read_columns_from(keys,
                      range_stream(keys, column_name \o <<0>>, column_name \o <<2>>),
                      column_name \o <<0>>, <<>>)

read_columns(keys, column_name) ==
    LET start_key == column_name \o <<0>>
        end_key == column_name \o <<1>>
    IN  read_columns_from(keys, range_stream(keys, start_key, end_key), start_key, <<>>)

InitColumnarVars ==
    /\ recorded_columns = {}
    /\ column_dictionary = NoneV
    /\ columnar_last = [op |-> "writer"]

IdleColumnarVars ==
    /\ recorded_columns = {}
    /\ column_dictionary = NoneV
    /\ columnar_last = [op |-> "idle"]

\* ColumnarWriter::record_column_type
RecordColumnType ==
    /\ columnar_last.op = "writer"
    /\ Cardinality(recorded_columns) < MaxColumns
    /\ \E column_name \in ColumnNames, column_type \in ColumnTypes :
           /\ <<column_name, column_type>> \notin recorded_columns
           /\ recorded_columns' = recorded_columns \cup {<<column_name, column_type>>}
    /\ UNCHANGED <<column_dictionary, columnar_last>>
    /\ UNCHANGED notColumnarVars

\* ColumnarWriter::serialize, then ColumnarReader::open of the buffer
OpenColumnar ==
    /\ columnar_last.op = "writer"
    /\ column_dictionary' = {column_key(c[1], c[2]) : c \in recorded_columns}
    /\ columnar_last' = [op |-> "open"]
    /\ UNCHANGED recorded_columns
    /\ UNCHANGED notColumnarVars

ListColumns ==
    /\ columnar_last.op \notin {"writer", "idle"}
    /\ columnar_last' = [op |-> "list_columns", result |-> list_columns(column_dictionary)]
    /\ UNCHANGED <<recorded_columns, column_dictionary>>
    /\ UNCHANGED notColumnarVars

ReadColumns ==
    /\ columnar_last.op \notin {"writer", "idle"}
    /\ \E column_name \in ColumnNames :
           columnar_last' = [op |-> "read_columns", column_name |-> column_name,
                             result |-> read_columns(column_dictionary, column_name)]
    /\ UNCHANGED <<recorded_columns, column_dictionary>>
    /\ UNCHANGED notColumnarVars

-----------------------------------------------------------------------------
(* The query side of a JSON field (indexer/json_term_writer.rs lines       *)
(* 201-311): the json path of a query is split into segments, a            *)
(* JsonTermWriter is opened at them, and the type of the phrase is         *)
(* inferred from its text.  Characters are ASCII and held as their codes.  *)

\* the length of a json path
MaxPathLen == 4

\* the characters of a json path: 'a', '.' and '\'
PathChars == {97, 46, 92}

JsonPaths == UNION {[1..n -> PathChars] : n \in 0..MaxPathLen}

\* the for loop of split_json_path over the remaining characters
RECURSIVE split_json_path_loop(_, _, _, _)
split_json_path_loop(chars, escaped_state, buffer, json_path_segments) ==
    IF chars = <<>> THEN Append(json_path_segments, buffer)
    ELSE IF escaped_state
    THEN split_json_path_loop(Tail(chars), FALSE, Append(buffer, chars[1]), json_path_segments)
    ELSE IF chars[1] = 92
    THEN split_json_path_loop(Tail(chars), TRUE, buffer, json_path_segments)
    ELSE IF chars[1] = 46
    THEN split_json_path_loop(Tail(chars), FALSE, <<>>, Append(json_path_segments, buffer))
    ELSE split_json_path_loop(Tail(chars), FALSE, Append(buffer, chars[1]), json_path_segments)

\* the faulty variant: an empty buffer is not pushed at the end
split_json_path_without_empty_tail(json_path) ==
    LET segments == split_json_path_loop(json_path, FALSE, <<>>, <<>>)
    IN  IF segments[Len(segments)] = <<>> THEN SubSeq(segments, 1, Len(segments) - 1)
        ELSE segments

\* split_json_path
split_json_path(json_path) == split_json_path_loop(json_path, FALSE, <<>>, <<>>)

\* Term::set_field_and_type: the assert panics on a term that has value bytes
set_field_and_type(t, field_id, typ) ==
    IF Len(t) # TERM_METADATA_LENGTH THEN [panicked |-> TRUE, term |-> t]
    ELSE [panicked |-> FALSE, term |-> u32_to_be_bytes(field_id) \o <<to_code(typ)>>]

RECURSIVE push_all(_, _)
push_all(w, segments) ==
    IF segments = <<>> THEN w
    ELSE push_all(push_path_segment(w, segments[1]), Tail(segments))

\* JsonTermWriter::from_field_and_json_path
from_field_and_json_path(field_id, json_path, expand_dots_enabled, term_buffer) ==
    LET set == set_field_and_type(term_buffer, field_id, "Json")
    IN  IF set.panicked THEN [panicked |-> TRUE]
        ELSE push_all(wrap(set.term, expand_dots_enabled), split_json_path(json_path))

\* the decimal digits of a number that is not negative
RECURSIVE digits_of(_)
digits_of(n) ==
    IF n < 10 THEN <<48 + n>> ELSE Append(digits_of(n \div 10), 48 + (n % 10))

\* the decimal text of an integer (Display of u64 and i64)
to_string(n) == IF n < 0 THEN <<45>> \o digits_of(-n) ELSE digits_of(n)

RECURSIVE number_of(_)
number_of(digits) ==
    IF digits = <<>> THEN 0
    ELSE number_of(SubSeq(digits, 1, Len(digits) - 1)) * 10 + (digits[Len(digits)] - 48)

is_digits(chars) == chars # <<>> /\ \A i \in 1..Len(chars) : chars[i] \in 48..57

\* str::parse::<u64>: decimal digits after an optional '+'; the texts here
\* have at most ten digits and stand for numbers below 2^31
parse_u64(phrase) ==
    LET digits == IF Len(phrase) > 1 /\ phrase[1] = 43 THEN Tail(phrase) ELSE phrase
    IN  IF is_digits(digits) THEN SomeV(number_of(digits)) ELSE NoneV

\* str::parse::<i64>: decimal digits after an optional '+' or '-'
parse_i64(phrase) ==
    LET signed == Len(phrase) > 1 /\ phrase[1] \in {43, 45}
        digits == IF signed THEN Tail(phrase) ELSE phrase
    IN  IF ~is_digits(digits) THEN NoneV
        ELSE IF signed /\ phrase[1] = 45 THEN SomeV(-number_of(digits))
        ELSE SomeV(number_of(digits))

\* str::parse::<bool>: "true" or "false"
parse_bool(phrase) ==
    IF phrase = <<116, 114, 117, 101>> THEN SomeV(TRUE)
    ELSE IF phrase = <<102, 97, 108, 115, 101>> THEN SomeV(FALSE)
    ELSE NoneV

\* "1970-01-01T00:00:01.5Z"
DateText ==
    <<49, 57, 55, 48, 45, 48, 49, 45, 48, 49, 84, 48, 48, 58, 48, 48, 58, 48, 49, 46, 53, 90>>

\* OffsetDateTime::parse(phrase, &Rfc3339), to_offset(UTC) and
\* DateTime::from_utc: the microseconds of the one date text there is here;
\* no shorter text is an RFC 3339 date-time
parse_rfc3339(phrase) == IF phrase = DateText THEN SomeV(1500000) ELSE NoneV

\* str::parse::<f64>: of the phrases here it takes the integer texts only
parse_f64(phrase) == parse_i64(phrase)

\* the integers whose decimal text is a phrase
PhraseIntegers == {-2147483647, -65536, -4, -1, 0, 1, 4, 400, 65536, 2147483647}

\* the phrases of a query: the integer texts, "+4", "-0", "-", "true",
\* "false", "red", the empty phrase and a date
Phrases ==
    {to_string(n) : n \in PhraseIntegers}
        \cup {<<43, 52>>, <<45, 48>>, <<45>>, <<116, 114, 117, 101>>,
              <<102, 97, 108, 115, 101>>, <<114, 101, 100>>, <<>>, DateText}

\* set_fastvalue_and_get_term: the writer after set_fast_value and a clone of its term
set_fastvalue_and_get_term(w, typ, val) ==
    LET set == set_fast_value(w, typ, val)
    IN  [writer |-> set, panicked |-> set.panicked, result |-> SomeV(set.term_buffer)]

\* the faulty variant: i64 is tried before u64
convert_to_fast_value_i64_first(w, phrase) ==
    IF parse_rfc3339(phrase).some
    THEN set_fastvalue_and_get_term(w, "Date", parse_rfc3339(phrase).val)
    ELSE IF parse_i64(phrase).some
    THEN set_fastvalue_and_get_term(w, "I64", parse_i64(phrase).val)
    ELSE IF parse_u64(phrase).some
    THEN set_fastvalue_and_get_term(w, "U64", parse_u64(phrase).val)
    ELSE IF parse_f64(phrase).some
    THEN set_fastvalue_and_get_term(w, "F64", parse_f64(phrase).val)
    ELSE IF parse_bool(phrase).some
    THEN set_fastvalue_and_get_term(w, "Bool", parse_bool(phrase).val)
    ELSE [writer |-> w, panicked |-> FALSE, result |-> NoneV]

\* convert_to_fast_value_and_get_term: a date, then u64, i64, f64 and bool
convert_to_fast_value_and_get_term(w, phrase) ==
    IF parse_rfc3339(phrase).some
    THEN set_fastvalue_and_get_term(w, "Date", parse_rfc3339(phrase).val)
    ELSE IF parse_u64(phrase).some
    THEN set_fastvalue_and_get_term(w, "U64", parse_u64(phrase).val)
    ELSE IF parse_i64(phrase).some
    THEN set_fastvalue_and_get_term(w, "I64", parse_i64(phrase).val)
    ELSE IF parse_f64(phrase).some
    THEN set_fastvalue_and_get_term(w, "F64", parse_f64(phrase).val)
    ELSE IF parse_bool(phrase).some
    THEN set_fastvalue_and_get_term(w, "Bool", parse_bool(phrase).val)
    ELSE [writer |-> w, panicked |-> FALSE, result |-> NoneV]

InitQueryVars ==
    /\ query_json_path \in JsonPaths
    /\ query_writer = NoneV
    /\ query_last = [op |-> "new"]

IdleQueryVars ==
    /\ query_json_path = <<>>
    /\ query_writer = NoneV
    /\ query_last = [op |-> "idle"]

\* a writer is opened at the json path, on a fresh term buffer or on one
\* that holds a value
FromFieldAndJsonPath ==
    /\ query_last.op # "idle"
    /\ \E field_id \in {1, 258}, expand_dots_enabled \in BOOLEAN,
          term_buffer \in {<<0, 0, 0, 0, 0>>, from_fast_value(1, "U64", 4)} :
        LET w == from_field_and_json_path(field_id, query_json_path,
                                          expand_dots_enabled, term_buffer)
        IN  /\ query_writer' = IF w.panicked THEN NoneV ELSE SomeV(w)
            /\ query_last' = [op |-> "from_field_and_json_path", field_id |-> field_id,
                              expand_dots_enabled |-> expand_dots_enabled,
                              panicked |-> w.panicked]
    /\ UNCHANGED query_json_path
    /\ UNCHANGED notQueryVars

\* the type of a phrase is inferred and its term is built at the open path
ConvertToFastValueAndGetTerm ==
    /\ query_last.op # "idle"
    /\ query_writer.some
    /\ \E phrase \in Phrases :
        LET converted == convert_to_fast_value_and_get_term(query_writer.val, phrase)
        IN  /\ query_writer' = SomeV(converted.writer)
            /\ query_last' = [op |-> "convert_to_fast_value_and_get_term",
                              phrase |-> phrase,
                              result |-> converted.result]
    /\ UNCHANGED query_json_path
    /\ UNCHANGED notQueryVars

-----------------------------------------------------------------------------
(* Specifications *)

InitMap == InitMapVars /\ IdleSelectVars /\ IdleIndexVars /\ IdleDocSetVars /\ IdleBoolVars /\ IdleTermVars /\ IdleJsonVars /\ IdlePostingsVars /\ IdleReaderVars /\ IdleWorkersVars /\ IdleColumnarVars /\ IdleQueryVars

NextMap == MutateOrCreate

SpecMap == InitMap /\ [][NextMap]_vars

InitSelect == InitSelectVars /\ IdleMapVars /\ IdleIndexVars /\ IdleDocSetVars /\ IdleBoolVars /\ IdleTermVars /\ IdleJsonVars /\ IdlePostingsVars /\ IdleReaderVars /\ IdleWorkersVars /\ IdleColumnarVars /\ IdleQueryVars

NextSelect == SelectBatchInPlace

SpecSelect == InitSelect /\ [][NextSelect]_vars

InitIndex == InitIndexVars /\ IdleMapVars /\ IdleSelectVars /\ IdleDocSetVars /\ IdleBoolVars /\ IdleTermVars /\ IdleJsonVars /\ IdlePostingsVars /\ IdleReaderVars /\ IdleWorkersVars /\ IdleColumnarVars /\ IdleQueryVars

NextIndex ==
    \/ AddDocument
    \/ DeleteTerm
    \/ commit
    \/ rollback
    \/ merge
    \/ reload

SpecIndex == InitIndex /\ [][NextIndex]_vars

InitDocSet == InitDocSetVars /\ IdleMapVars /\ IdleSelectVars /\ IdleIndexVars /\ IdleBoolVars /\ IdleTermVars /\ IdleJsonVars /\ IdlePostingsVars /\ IdleReaderVars /\ IdleWorkersVars /\ IdleColumnarVars /\ IdleQueryVars

NextDocSet ==
    \/ ReadPostings
    \/ BooleanScorer
    \/ advance

SpecDocSet == InitDocSet /\ [][NextDocSet]_vars

InitBool == InitBoolVars /\ IdleMapVars /\ IdleSelectVars /\ IdleIndexVars /\ IdleDocSetVars /\ IdleTermVars /\ IdleJsonVars /\ IdlePostingsVars /\ IdleReaderVars /\ IdleWorkersVars /\ IdleColumnarVars /\ IdleQueryVars

NextBool == search

SpecBool == InitBool /\ [][NextBool]_vars

InitTerm == InitTermVars /\ IdleMapVars /\ IdleSelectVars /\ IdleIndexVars /\ IdleDocSetVars /\ IdleBoolVars /\ IdleJsonVars /\ IdlePostingsVars /\ IdleReaderVars /\ IdleWorkersVars /\ IdleColumnarVars /\ IdleQueryVars

NextTerm ==
    \/ from_field_u64
    \/ from_field_i64
    \/ from_field_bool
    \/ from_field_date
    \/ set_date

SpecTerm == InitTerm /\ [][NextTerm]_vars

InitJson == InitJsonVars /\ IdleMapVars /\ IdleSelectVars /\ IdleIndexVars /\ IdleDocSetVars /\ IdleBoolVars /\ IdleTermVars /\ IdlePostingsVars /\ IdleReaderVars /\ IdleWorkersVars /\ IdleColumnarVars /\ IdleQueryVars

NextJson ==
    \/ PushPathSegment
    \/ PopPathSegment
    \/ ClosePathAndSetType
    \/ SetFastValue
    \/ SetStr

SpecJson == InitJson /\ [][NextJson]_vars

InitPostings == InitPostingsVars /\ IdleMapVars /\ IdleSelectVars /\ IdleIndexVars /\ IdleDocSetVars /\ IdleBoolVars /\ IdleTermVars /\ IdleJsonVars /\ IdleReaderVars /\ IdleWorkersVars /\ IdleColumnarVars /\ IdleQueryVars

NextPostings == IndexJsonValues

SpecPostings == InitPostings /\ [][NextPostings]_vars

InitReader == InitReaderVars /\ IdleMapVars /\ IdleSelectVars /\ IdleIndexVars /\ IdleDocSetVars /\ IdleBoolVars /\ IdleTermVars /\ IdleJsonVars /\ IdlePostingsVars /\ IdleWorkersVars /\ IdleColumnarVars /\ IdleQueryVars

NextReader ==
    \/ CommitSegment
    \/ MergeSegments
    \/ ReloadReader
    \/ AcquireSearcher
    \/ DropSearcher
    \/ GcScan
    \/ GcDelete

SpecReader == InitReader /\ [][NextReader]_vars

InitWorkers == InitWorkersVars /\ IdleMapVars /\ IdleSelectVars /\ IdleIndexVars /\ IdleDocSetVars /\ IdleBoolVars /\ IdleTermVars /\ IdleJsonVars /\ IdlePostingsVars /\ IdleReaderVars /\ IdleColumnarVars /\ IdleQueryVars

NextWorkers ==
    \/ SendDocument
    \/ WorkerIndexes
    \/ WorkerFlushes
    \/ CommitCalled
    \/ CommitReturns

SpecWorkers == InitWorkers /\ [][NextWorkers]_vars

InitColumnar == InitColumnarVars /\ IdleMapVars /\ IdleSelectVars /\ IdleIndexVars /\ IdleDocSetVars /\ IdleBoolVars /\ IdleTermVars /\ IdleJsonVars /\ IdlePostingsVars /\ IdleReaderVars /\ IdleWorkersVars /\ IdleQueryVars

NextColumnar ==
    \/ RecordColumnType
    \/ OpenColumnar
    \/ ListColumns
    \/ ReadColumns

SpecColumnar == InitColumnar /\ [][NextColumnar]_vars

InitQuery == InitQueryVars /\ IdleMapVars /\ IdleSelectVars /\ IdleIndexVars /\ IdleDocSetVars /\ IdleBoolVars /\ IdleTermVars /\ IdleJsonVars /\ IdlePostingsVars /\ IdleReaderVars /\ IdleWorkersVars /\ IdleColumnarVars

NextQuery ==
    \/ FromFieldAndJsonPath
    \/ ConvertToFastValueAndGetTerm

SpecQuery == InitQuery /\ [][NextQuery]_vars

-----------------------------------------------------------------------------
(* Claims about ArenaHashMap, checked under SpecMap *)

\* the unordered_id stored in the bucket that holds key
stored_unordered_id(key) ==
    LET p == probe_loop(table, memory_arena, mask, key, murmurhash2[key], 1)
    IN  IF p.kind = "match" THEN table[p.bucket + 1].unordered_id ELSE -1

\* C4: after any sequence of mutate_or_create calls the map agrees with the
\* reference key -> value map: the updater received None exactly when the key
\* had never been inserted and otherwise Some(the value last stored for it),
\* and get(key) of every inserted key returns the value stored last.
C4_MapAgreesWithReference ==
    /\ last_call.arg = last_call.expected
    /\ \A k \in Keys :
          reference[k].some => get(table, memory_arena, mask, murmurhash2, k) = reference[k]

\* two keys with equal hashes are both in the map, the table has been resized
\* up to 8 buckets, and the last call updated an existing key
C4_Witness ==
    /\ \E k1, k2 \in Keys : /\ k1 # k2
                             /\ murmurhash2[k1] = murmurhash2[k2]
                             /\ reference[k1].some /\ reference[k2].some
    /\ Len(table) = 8
    /\ last_call.arg.some

\* C5: the k-th distinct key ever inserted has unordered_id k (from 0), every
\* call on it returns that id, also after resizes, and the ids in use are
\* exactly 0..len-1.
C5_DenseUnorderedIds ==
    /\ len = Len(inserted)
    /\ \A i \in 1..Len(inserted) : stored_unordered_id(inserted[i]) = i - 1
    /\ \A i \in 1..Len(inserted) : last_call.key = inserted[i] => last_call.id = i - 1
    /\ {table[occupied[i] + 1].unordered_id : i \in 1..Len(occupied)} = 0..(len - 1)

\* three keys are in the map, the table has been resized up to 8 buckets, and
\* the last call was a later call on the key inserted first
C5_Witness ==
    /\ len = 3
    /\ Len(table) = 8
    /\ ~last_call.created
    /\ last_call.key = inserted[1]
    /\ last_call.id = 0

IsPowerOfTwo(n) == \E e \in 0..16 : n = 2 ^ e

\* the bucket is where the probes of its hash end: every bucket probed
\* before it is occupied
rehashed(tbl, msk, bucket) ==
    \E i \in 1..Len(tbl) :
        /\ next_probe(tbl[bucket + 1].hash, i, msk) = bucket
        /\ \A j \in 1..(i - 1) : ~is_empty(tbl[next_probe(tbl[bucket + 1].hash, j, msk) + 1])

\* the buckets a call of mutate_or_create starts with, as they are after
\* its resize: those of the next state, the bucket of a new key left out
buckets_after_resize == {occupied'[k] : k \in 1..Len(occupied)}

\* C26: at the start of every mutate_or_create the capacity is doubled and
\* the occupied buckets rehashed exactly when occupied * 3 >= capacity, the
\* capacity is unchanged otherwise; the capacity is always a power of two.
C26_ResizeExactlyWhenSaturated ==
    /\ [](IsPowerOfTwo(Len(table)) /\ mask = Len(table) - 1)
    /\ [][IF Len(occupied) * 3 >= Len(table)
          THEN /\ Len(table') = 2 * Len(table)
               /\ Cardinality(buckets_after_resize) = Len(occupied)
               /\ \A k \in 1..Len(occupied) :
                      /\ ~is_empty(table'[occupied'[k] + 1])
                      /\ table'[occupied'[k] + 1].hash = table[occupied[k] + 1].hash
               /\ \A k \in 1..Len(occupied) :
                      rehashed([b \in 1..Len(table') |->
                                   IF b - 1 \in {occupied'[j] : j \in 1..k}
                                   THEN table'[b] ELSE KeyValueDefault],
                               mask', occupied'[k])
          ELSE /\ Len(table') = Len(table)
               /\ \A k \in 1..Len(occupied) :
                      /\ occupied'[k] = occupied[k]
                      /\ table'[occupied[k] + 1] = table[occupied[k] + 1]]_vars

\* three keys are in a table of 16 buckets: the table was doubled twice
C26_Witness ==
    /\ Len(table) = 16
    /\ Len(occupied) = 3
    /\ len = 3

\* C27: whenever a new key is placed in a bucket, occupied * 3 <= capacity
\* holds after the optional resize and before the insertion, for every
\* initial table_size >= 1.
C27_LoadAtMostOneThird ==
    [][Len(occupied') = Len(occupied) + 1 => Len(occupied) * 3 <= Len(table')]_vars

\* C28: a resize changes bucket positions only: every stored key keeps its
\* arena address, hash, unordered_id, key bytes and value, len() is
\* unchanged, and iter() yields the same keys in insertion order, each once.
C28_ResizeMovesBucketsOnly ==
    /\ [](/\ Len(iter(table, memory_arena, occupied)) = len
          /\ \A k \in 1..Len(occupied) :
                 iter(table, memory_arena, occupied)[k].key = inserted[k])
    /\ [][Len(table') = 2 * Len(table) =>
            /\ \A k \in 1..Len(occupied) : table'[occupied'[k] + 1] = table[occupied[k] + 1]
            /\ \A addr \in 1..Len(memory_arena) :
                   /\ memory_arena'[addr].key = memory_arena[addr].key
                   /\ memory_arena[addr].key # last_call'.key =>
                          memory_arena'[addr].value = memory_arena[addr].value
            /\ len' = len + (IF last_call'.created THEN 1 ELSE 0)
            /\ \A k \in 1..Len(occupied) :
                   iter(table', memory_arena', occupied')[k].key
                       = iter(table, memory_arena, occupied)[k].key
            /\ \A key \in Keys :
                   reference[key].some =>
                       Cardinality({k \in 1..Len(occupied') :
                                       iter(table', memory_arena', occupied')[k].key = key}) = 1]_vars

\* three keys, two of them with equal hashes, are in a table that was
\* doubled to 8 buckets, and the two are in different buckets
C28_Witness ==
    /\ Len(table) = 8
    /\ len = 3
    /\ murmurhash2[inserted[1]] = murmurhash2[inserted[2]]
    /\ occupied[1] # occupied[2]
    /\ last_call.created

\* C29: in every state reachable from ArenaHashMap::new(n), n >= 1, the
\* table keeps an empty bucket, and the probe loop of get ends for every
\* key, present or absent.
C29_ProbeLoopsTerminate ==
    /\ \E b \in 1..Len(table) : is_empty(table[b])
    /\ \A key \in Keys :
           probe_loop(table, memory_arena, mask, key, murmurhash2[key], 1).kind # "diverges"

-----------------------------------------------------------------------------
(* Claims about select_batch_in_place, checked under SpecSelect *)

\* the doc that owns the value rank r: offsets[d] <= r < offsets[d + 1]
rank_to_doc(col, r) ==
    CHOOSE d \in 0..(num_rows(col) - 1) : get_val(col, d) <= r /\ r < get_val(col, d + 1)

RECURSIVE dedup_consecutive(_)
dedup_consecutive(s) ==
    IF Len(s) <= 1 THEN s
    ELSE LET init == dedup_consecutive(SubSeq(s, 1, Len(s) - 1))
         IN  IF s[Len(s)] = s[Len(s) - 1] THEN init ELSE Append(init, s[Len(s)])

SelectCalled == select_outcome \in {"returned", "panicked"}

FirstRankBelowStart ==
    ranks_in # <<>> /\ ranks_in[1] < get_val(start_index_column, row_start)

\* C6: for every non-decreasing offset index, every doc_start and every
\* ascending list of value ranks with ranks[0] >= offsets[doc_start], the call
\* returns and leaves in ranks dedup_consecutive(rank_to_doc(r) for r in ranks).
C6_SelectBatchCorrect ==
    (SelectCalled /\ IsNonDecreasing(ranks_in) /\ ~FirstRankBelowStart)
        => /\ select_outcome = "returned"
           /\ ranks = dedup_consecutive(
                         [i \in 1..Len(ranks_in) |-> rank_to_doc(start_index_column, ranks_in[i])])

\* the scenario of the tests: offsets [0,10,12,15,22,23], ranks
\* [10,11,15,20,21,22] give [1,3,4]
C6_Witness ==
    /\ start_index_column = TestOffsets
    /\ ranks_in = TestPositions
    /\ select_outcome = "returned"
    /\ ranks = <<1, 3, 4>>

\* C7 as stated: a call whose ranks are not sorted ascending, or with
\* offsets[doc_start] > ranks[0], is rejected instead of producing a doc list.
C7_BothPreconditionsChecked ==
    (SelectCalled /\ (~IsNonDecreasing(ranks_in) \/ FirstRankBelowStart))
        => select_outcome = "panicked"

\* C7 amended: only offsets[doc_start] <= ranks[0] is checked: the call is
\* rejected (it panics) exactly when ranks is non-empty and
\* offsets[doc_start] > ranks[0]; ranks that are not sorted are not rejected.
C7_OnlyFirstRankChecked ==
    SelectCalled => (select_outcome = "panicked" <=> FirstRankBelowStart)

\* ranks that are not sorted were passed and a doc list came back
C7_Witness ==
    /\ ~IsNonDecreasing(ranks_in)
    /\ select_outcome = "returned"
    /\ ranks # <<>>

\* C8 as stated: with ranks non-empty and ranks[0] < offsets[doc_start] the
\* call returns an error to its caller (it returns, and what it returns is an
\* error).
C8_ReturnsError ==
    (SelectCalled /\ FirstRankBelowStart) => select_outcome = "error"

\* C8 amended: with ranks non-empty and ranks[0] < offsets[doc_start] the call
\* panics on its assertion, before it has written to ranks.
C8_PanicsOnAssertion ==
    (SelectCalled /\ FirstRankBelowStart) => (select_outcome = "panicked" /\ ranks = ranks_in)

\* a call with ranks[0] < offsets[doc_start] and a last rank above it panicked
C8_Witness ==
    /\ FirstRankBelowStart
    /\ ranks_in[Len(ranks_in)] >= get_val(start_index_column, row_start)
    /\ select_outcome = "panicked"

\* the row_start values a caller may pass with the ranks: those whose
\* first value is not after the first rank
admissible_row_start(col, start, rks) == rks = <<>> \/ assert_holds(col, start, rks)

\* C30: for a non-decreasing offset index and ascending ranks the result of
\* select_batch_in_place is the same for every row_start whose offset is
\* at most ranks[0].
C30_ResultIndependentOfRowStart ==
    (/\ select_outcome \notin {"pending", "idle"}
     /\ IsNonDecreasing(ranks_in)
     /\ admissible_row_start(start_index_column, row_start, ranks_in)) =>
        \A other_start \in 0..(num_rows(start_index_column) - 1) :
            admissible_row_start(start_index_column, other_start, ranks_in) =>
                select_batch_in_place(start_index_column, other_start, ranks_in)
                    = [outcome |-> select_outcome, ranks |-> ranks]

\* the offsets and positions of test_positions_to_docid, called with
\* row_start 1 where row_start 0 is admissible too: the result is 1, 3, 4
C30_Witness ==
    /\ start_index_column = TestOffsets
    /\ ranks_in = TestPositions
    /\ row_start = 1
    /\ admissible_row_start(start_index_column, 0, ranks_in)
    /\ select_outcome = "returned"
    /\ ranks = <<1, 3, 4>>

\* the call was made under its preconditions: ascending ranks and
\* offsets[row_start] <= ranks[0]
SelectPreconditions ==
    /\ SelectCalled
    /\ IsNonDecreasing(ranks_in)
    /\ ~FirstRankBelowStart

\* write_doc_pos when the loop reads ranks[i] (i from 0): the number of docs
\* the call leaves for the first i ranks
write_doc_pos_at(i) ==
    Len(select_batch_in_place(start_index_column, row_start, SubSeq(ranks_in, 1, i)).ranks)

\* C31: under its preconditions the output of select_batch_in_place is a
\* strictly increasing list of doc ids, no longer than the input, each
\* >= row_start and each owning an input rank (no doc with an empty value
\* range); the write index never passes the read index; an empty ranks
\* list is left empty.
C31_OutputStrictlyIncreasingDocs ==
    SelectPreconditions =>
        /\ select_outcome = "returned"
        /\ \A i \in 1..(Len(ranks) - 1) : ranks[i] < ranks[i + 1]
        /\ Len(ranks) <= Len(ranks_in)
        /\ \A i \in 1..Len(ranks) :
               /\ ranks[i] >= row_start
               /\ ranks[i] <= num_rows(start_index_column) - 1
               /\ get_val(start_index_column, ranks[i]) < get_val(start_index_column, ranks[i] + 1)
               /\ \E j \in 1..Len(ranks_in) :
                      /\ get_val(start_index_column, ranks[i]) <= ranks_in[j]
                      /\ ranks_in[j] < get_val(start_index_column, ranks[i] + 1)
        /\ \A i \in 0..(Len(ranks_in) - 1) : write_doc_pos_at(i) <= i
        /\ ranks_in = <<>> => ranks = <<>>

\* three ranks, two of them of one doc, and row_start on an empty doc: the
\* empty doc is not in the output, the two docs that own the ranks are
C31_Witness ==
    /\ SelectPreconditions
    /\ start_index_column = <<0, 0, 2, 3>>
    /\ row_start = 0
    /\ ranks_in = <<0, 1, 2>>
    /\ ranks = <<1, 2>>

\* every rank is the rank of a value of the column
RanksInColumn ==
    \A i \in 1..Len(ranks_in) :
        ranks_in[i] < get_val(start_index_column, num_rows(start_index_column))

\* C32: provided every rank is < offsets[num_rows] and the preconditions
\* hold, the call terminates without reading the offset column above
\* num_rows: cur_doc never exceeds num_rows - 1.
C32_ScanStaysInsideTheColumn ==
    (SelectPreconditions /\ RanksInColumn) =>
        /\ select_outcome = "returned"
        /\ \A i \in 1..Len(ranks_in) :
               LET s == scan_to_doc(start_index_column, row_start, ranks_in[i])
               IN  s.kind = "doc" /\ s.doc <= num_rows(start_index_column) - 1

\* the last rank is the last value of the column and belongs to the last
\* doc, which follows an empty doc: cur_doc ends at num_rows - 1
C32_Witness ==
    /\ SelectPreconditions
    /\ RanksInColumn
    /\ num_rows(start_index_column) = MaxDocs
    /\ get_val(start_index_column, MaxDocs - 1) = get_val(start_index_column, MaxDocs - 2)
    /\ ranks_in # <<>>
    /\ ranks_in[Len(ranks_in)] = get_val(start_index_column, MaxDocs) - 1
    /\ ranks # <<>>
    /\ ranks[Len(ranks)] = MaxDocs - 1

-----------------------------------------------------------------------------
(* Claims about the index lifecycle, checked under SpecIndex *)

\* the documents left live by applying the operations of log one by one, in
\* the order of their opstamps (the order of the log)
RECURSIVE replay(_, _)
replay(log, live) ==
    IF log = <<>> THEN {d.opstamp : d \in live}
    ELSE LET op == Head(log)
         IN  replay(Tail(log),
                    CASE op.kind = "add" -> live \cup {op}
                      [] op.kind = "delete" -> {d \in live : op.terms \cap d.terms = {}}
                      [] OTHER -> live)

\* the operations of the log with opstamp <= o
ops_up_to(o) ==
    LET Keep(op) == op.opstamp <= o
    IN  SelectSeq(oplog, Keep)

\* the operations of the log with opstamp <= o that no rollback discarded
published_ops_up_to(o) ==
    LET Keep(op) == op.opstamp <= o /\ ~op.discarded
    IN  SelectSeq(oplog, Keep)

\* the reader has loaded the meta written by a commit
SearcherAtCommit ==
    \E i \in 1..Len(oplog) : oplog[i].kind = "commit" /\ oplog[i].opstamp = searcher.opstamp

\* C1 as stated: after commit returns with opstamp o, a reader that reloads
\* sees exactly the effect of all add and delete operations with opstamp <= o,
\* for every interleaving of add_document, delete_term, commit and rollback.
C1_AllOpsUpToCommitVisible ==
    SearcherAtCommit
        => live_docs(searcher.segments) = replay(ops_up_to(searcher.opstamp), {})

\* C1 amended: after commit returns with opstamp o, a reader that reloads sees
\* exactly the effect of the add and delete operations with opstamp <= o that
\* no rollback discarded, and of no operation with a larger opstamp.
C1_PublishedOpsUpToCommitVisible ==
    SearcherAtCommit
        => live_docs(searcher.segments) = replay(published_ops_up_to(searcher.opstamp), {})

\* the reader has reloaded after a commit that followed a rollback: an add
\* was discarded, a later add and a later delete were committed, and an
\* operation with a larger opstamp is still uncommitted
C1_Witness ==
    /\ SearcherAtCommit
    /\ searcher = meta
    /\ \E i, j, k \in 1..Len(oplog) :
          /\ oplog[i].kind = "add" /\ oplog[i].discarded
          /\ oplog[j].kind = "add" /\ ~oplog[j].discarded
          /\ oplog[k].kind = "delete" /\ ~oplog[k].discarded
          /\ i < j /\ j < k
          /\ oplog[k].opstamp < searcher.opstamp
    /\ pending_docs # {}

\* C2: after rollback() the operations issued since the last commit have no
\* effect: the meta still shows the live documents of the last commit, nothing
\* is left pending, and no commit ever publishes a discarded add or applies a
\* discarded delete.
C2_RollbackDiscardsUncommitted ==
    /\ last_op = "rollback"
          => /\ pending_docs = {} /\ delete_queue = {}
             /\ live_docs(meta.segments) = committed_live
    /\ \A i \in 1..Len(oplog) :
          (oplog[i].kind = "add" /\ oplog[i].discarded)
              => oplog[i].opstamp \notin {d.opstamp : d \in UNION {seg.docs : seg \in meta.segments}}
    /\ \A seg \in meta.segments : \A d \in seg.docs :
          d.opstamp \in seg.deleted
              => \E i \in 1..Len(oplog) :
                    /\ oplog[i].kind = "delete" /\ ~oplog[i].discarded
                    /\ oplog[i].terms \subseteq d.terms
                    /\ oplog[i].opstamp > d.opstamp

\* a delete matching a committed document was rolled back, then a later add
\* was committed: the document committed before the rollback is still live
C2_Witness ==
    /\ last_op = "commit"
    /\ \E i, j, l \in 1..Len(oplog) :
          /\ oplog[i].kind = "add" /\ ~oplog[i].discarded
          /\ oplog[i].opstamp \in live_docs(meta.segments)
          /\ oplog[j].kind = "delete" /\ oplog[j].discarded
          /\ oplog[j].terms \subseteq oplog[i].terms
          /\ i < j
          /\ oplog[l].kind = "add" /\ j < l
          /\ oplog[l].opstamp \in live_docs(meta.segments)

\* the operations that a commit has published
Published(op) == ~op.discarded /\ op.opstamp \notin {d.opstamp : d \in pending_docs \cup delete_queue}

\* C3: a published delete_term with opstamp o marks deleted every matching
\* document added with an opstamp < o and never a document added with an
\* opstamp > o, in one commit or several; and a merge leaves the live
\* documents as they were.
C3_DeleteAppliesToEarlierAdds ==
    /\ \A i \in 1..Len(oplog) :
          (oplog[i].kind = "add" /\ Published(oplog[i]))
              => (oplog[i].opstamp \in live_docs(meta.segments)
                    <=> ~\E j \in 1..Len(oplog) :
                            /\ oplog[j].kind = "delete" /\ Published(oplog[j])
                            /\ oplog[j].terms \subseteq oplog[i].terms
                            /\ oplog[i].opstamp < oplog[j].opstamp)
    /\ last_op = "merge" => live_docs(meta.segments) = committed_live

\* a document was added and committed, its term was deleted and a document
\* with the same terms added again, all committed and then merged: exactly
\* the re-added document is live
C3_Witness ==
    /\ last_op = "merge"
    /\ Len(oplog) = 5
    /\ oplog[1].kind = "add" /\ oplog[2].kind = "commit" /\ oplog[3].kind = "delete"
    /\ oplog[4].kind = "add" /\ oplog[5].kind = "commit"
    /\ oplog[4].terms = oplog[1].terms
    /\ oplog[3].terms \subseteq oplog[1].terms
    /\ live_docs(meta.segments) = {oplog[4].opstamp}
    /\ Cardinality(meta.segments) = 1

-----------------------------------------------------------------------------
(* Claims about DocSet, checked under SpecDocSet *)

DocSetCreated == docset_kind \in {"postings", "scorer"}

\* the docs of the segment that hold a term the DocSet was created for
MatchingDocs == UNION {inverted_index[t] : t \in docset_terms}

\* C9 as stated: for every DocSet, doc() returns TERMINATED from creation
\* until the first advance() call.
C9_TerminatedUntilFirstAdvance ==
    (DocSetCreated /\ advances = 0) => doc(docset) = TERMINATED

\* C9 amended: from creation until the first advance() call, doc() returns
\* TERMINATED exactly for a DocSet that has no matching doc.
C9_TerminatedAtCreationIffEmpty ==
    (DocSetCreated /\ advances = 0) => (doc(docset) = TERMINATED <=> MatchingDocs = {})

\* a scorer without a match was created and not advanced, while the index
\* holds docs
C9_Witness ==
    /\ docset_kind = "scorer"
    /\ advances = 0
    /\ MatchingDocs = {}
    /\ doc(docset) = TERMINATED
    /\ \E t \in Terms : inverted_index[t] # {}

\* C10: a postings DocSet of a term present in the segment, and a scorer of a
\* query with matches, is on its first matching doc at creation: doc() is the
\* smallest matching doc id before any advance(), and for a single matching
\* doc the first advance() returns TERMINATED.
C10_PositionedOnFirstDoc ==
    /\ (DocSetCreated /\ advances = 0 /\ MatchingDocs # {})
          => /\ doc(docset) \in MatchingDocs
             /\ \A d \in MatchingDocs : doc(docset) <= d
    /\ (DocSetCreated /\ advances = 1 /\ Cardinality(MatchingDocs) = 1)
          => last_advance = TERMINATED
    /\ docset_kind = "postings" => MatchingDocs # {}

\* the postings of a term with the single doc 0 were read and advanced once,
\* as in test_indexed_u64
C10_Witness ==
    /\ docset_kind = "postings"
    /\ MatchingDocs = {0}
    /\ advances = 1
    /\ last_advance = TERMINATED

-----------------------------------------------------------------------------
(* Claims about BooleanQuery, checked under SpecBool *)

\* the terms of the clauses with the given Occur
clause_terms(clauses, occur) ==
    {clauses[i][2] : i \in {j \in 1..Len(clauses) : clauses[j][1] = occur}}

\* the match set of a query, by set algebra on the posting lists
expected_matches(docs, clauses) ==
    LET must == clause_terms(clauses, "Must")
        should == clause_terms(clauses, "Should")
        must_not == clause_terms(clauses, "MustNot")
        hits(T) == UNION {posting_docs(docs, t) : t \in T}
        in_all_must == {d \in 0..(Len(docs) - 1) : \A t \in must : d \in posting_docs(docs, t)}
    IN  IF must # {} THEN in_all_must \ hits(must_not)
        ELSE IF should # {} THEN hits(should) \ hits(must_not)
        ELSE {}

\* the doc ids a scorer emits, in order
doc_ids(scorer) == [i \in 1..Len(scorer) |-> scorer[i].doc]

doc_id_set(scorer) == {scorer[i].doc : i \in 1..Len(scorer)}

\* C11: the docs a BooleanQuery over term clauses matches are the
\* intersection of the MUST clauses minus the union of the MUST_NOT clauses
\* when there is a MUST clause (SHOULD clauses do not change the set), the
\* union of the SHOULD clauses minus the MUST_NOT clauses when there is none,
\* and nothing when there are only MUST_NOT clauses; so q AND q = q,
\* q OR q = q and q AND NOT q is empty; the docs come in strictly increasing order.
C11_BooleanMatchSet ==
    bq_searched =>
        /\ doc_id_set(bq_collected) = expected_matches(segment_docs, bq_clauses)
        /\ \A i \in 1..(Len(bq_collected) - 1) : bq_collected[i].doc < bq_collected[i + 1].doc
        /\ \A t \in clause_terms(bq_clauses, "Must") \cup clause_terms(bq_clauses, "Should") :
            LET matched(q) == doc_ids(boolean_weight_scorer(segment_docs, q))
            IN  /\ matched(<< <<"Must", t>>, <<"Must", t>> >>) = matched(<< <<"Must", t>> >>)
                /\ matched(<< <<"Should", t>>, <<"Should", t>> >>) = matched(<< <<"Should", t>> >>)
                /\ matched(<< <<"Must", t>>, <<"MustNot", t>> >>) = <<>>

\* the query (Must a, Should b, MustNot d) of test_boolean_query matched docs 0 and 1
C11_Witness ==
    /\ bq_searched
    /\ segment_docs = aux_test_helper
    /\ bq_clauses = << <<"Must", "a">>, <<"Should", "b">>, <<"MustNot", "d">> >>
    /\ doc_ids(bq_collected) = <<0, 1>>

\* the query without its MUST_NOT clauses
without_must_not(clauses) ==
    LET Keep(c) == c[1] # "MustNot"
    IN  SelectSeq(clauses, Keep)

\* C12: MUST_NOT clauses never change the score of a doc that still matches:
\* every (doc, score) the collector receives is a (doc, score) of the same
\* query without its MUST_NOT clauses.
C12_MustNotKeepsScores ==
    LET plain == boolean_weight_scorer(segment_docs, without_must_not(bq_clauses))
    IN  bq_searched =>
            \A i \in 1..Len(bq_collected) :
                \E j \in 1..Len(plain) : plain[j] = bq_collected[i]

\* (Must d, MustNot a, MustNot b) of test_boolean_query_two_excluded found
\* doc 4 only, where (Must d) alone finds docs 3 and 4
C12_Witness ==
    /\ bq_searched
    /\ segment_docs = aux_test_helper
    /\ bq_clauses = << <<"Must", "d">>, <<"MustNot", "a">>, <<"MustNot", "b">> >>
    /\ doc_ids(bq_collected) = <<4>>
    /\ doc_ids(boolean_weight_scorer(segment_docs, without_must_not(bq_clauses))) = <<3, 4>>
    /\ bq_collected[1].score = <<bm25(segment_docs, "d", 4)>>

-----------------------------------------------------------------------------
(* Claims about Term, checked under SpecTerm *)

\* the number four big-endian bytes stand for, the first byte read as
\* signed when signed is set
be_number(b1, b2, b3, b4, signed) ==
    ((((IF signed /\ b1 >= 128 THEN b1 - 256 ELSE b1) * 256 + b2) * 256 + b3) * 256) + b4

\* the eight value bytes are the big-endian u64 projection of val: a u64 as
\* it is, an i64 with its sign bit flipped, a bool as 0 or 1, a date as its
\* truncated microseconds with the sign bit flipped
is_projection(bytes, typ, val) ==
    /\ Len(bytes) = 8
    /\ \A i \in 1..8 : bytes[i] \in 0..255
    /\ CASE typ = "U64" ->
              /\ \A i \in 1..4 : bytes[i] = 0
              /\ be_number(bytes[5], bytes[6], bytes[7], bytes[8], FALSE) = val
         [] typ = "I64" ->
              /\ bytes[1] = (IF val >= 0 THEN 128 ELSE 127)
              /\ \A i \in 2..4 : bytes[i] = (IF val >= 0 THEN 0 ELSE 255)
              /\ be_number(bytes[5], bytes[6], bytes[7], bytes[8], TRUE) = val
         [] typ = "Bool" ->
              /\ \A i \in 1..7 : bytes[i] = 0
              /\ bytes[8] = (IF val THEN 1 ELSE 0)
         [] typ = "Date" ->
              \* the microseconds, cut to the whole second towards zero
              LET seconds == IF val >= 0 THEN val - (val % 1000000)
                             ELSE val + ((-val) % 1000000)
              IN  /\ bytes[1] = (IF seconds >= 0 THEN 128 ELSE 127)
                  /\ \A i \in 2..4 : bytes[i] = (IF seconds >= 0 THEN 0 ELSE 255)
                  /\ be_number(bytes[5], bytes[6], bytes[7], bytes[8], TRUE) = seconds

\* C13: Term::from_field_u64/i64/bool gives 13 bytes: the field id as 4
\* big-endian bytes, the type code, the 8-byte big-endian u64 projection of
\* the value; field(), typ() and as_u64/as_i64/as_bool give back the field,
\* the type and Some(value).
C13_FastValueTermRoundTrip ==
    (built_from.some /\ built_from.val.typ \in {"U64", "I64", "Bool"}) =>
        LET from == built_from.val
        IN  /\ Len(term_built) = 13
            /\ \A i \in 1..4 : term_built[i] \in 0..255
            /\ be_number(term_built[1], term_built[2], term_built[3], term_built[4], FALSE)
                   = from.field
            /\ term_built[5] = to_code(from.typ)
            /\ is_projection(SubSeq(term_built, 6, 13), from.typ, from.val)
            /\ field(term_built) = from.field
            /\ typ_of(term_built) = from.typ
            /\ get_fast_type(term_built, from.typ) = SomeV(from.val)
            /\ \A other \in {"U64", "I64", "Bool"} \ {from.typ} :
                   get_fast_type(term_built, other) = NoneV
            /\ (from.typ = "U64" /\ from.field = 1 /\ from.val = 4
                   => term_built = <<0, 0, 0, 1, 117, 0, 0, 0, 0, 0, 0, 0, 4>>)

\* from_field_i64(0x01020304, -4) was built: 01 02 03 04 'i' 7F FF FF FF FF FF FF FC
C13_Witness ==
    /\ built_from.some
    /\ built_from.val.typ = "I64"
    /\ built_from.val.field = 16909060
    /\ built_from.val.val = -4
    /\ term_built = <<1, 2, 3, 4, 105, 127, 255, 255, 255, 255, 255, 255, 252>>
    /\ get_fast_type(term_built, "I64") = SomeV(-4)

\* the Term built last, or the one before it, was built from these
built_as(from, field_id, typ, val) ==
    /\ from.some
    /\ from.val.typ = typ
    /\ from.val.field = field_id
    /\ from.val.val = val

\* the numeric order of two values of one type
value_less(typ, left, right) ==
    IF typ = "Bool" THEN ~left /\ right ELSE left < right

\* C14: for two terms of the same field and the same numeric type, the
\* byte-wise order of Term::cmp is the numeric order of the values:
\* encode(a) < encode(b) iff a < b, and encode(a) = encode(b) iff a = b.
C14_ByteOrderIsNumericOrder ==
    (/\ built_from.some
     /\ before_from.some
     /\ built_from.val.field = before_from.val.field
     /\ built_from.val.typ = before_from.val.typ) =>
        LET typ == built_from.val.typ
            a == before_from.val.val
            b == built_from.val.val
        IN  /\ (cmp(term_before, term_built) = "Less") <=> value_less(typ, a, b)
            /\ (cmp(term_before, term_built) = "Greater") <=> value_less(typ, b, a)
            /\ (cmp(term_before, term_built) = "Equal") <=> (a = b)
            /\ (term_before = term_built) <=> (a = b)

\* an i64 term of -1 was built and then one of 1 on the same field: the
\* first sorts before the second, 7F.. before 80..
C14_Witness ==
    /\ built_as(before_from, 1, "I64", -1)
    /\ built_as(built_from, 1, "I64", 1)
    /\ term_before[6] = 127
    /\ term_built[6] = 128
    /\ cmp(term_before, term_built) = "Less"

-----------------------------------------------------------------------------
(* Claims about JsonTermWriter, checked under SpecJson *)

\* the segments joined by the separator 0x01
RECURSIVE join_segments(_)
join_segments(segments) ==
    IF segments = <<>> THEN <<>>
    ELSE IF Len(segments) = 1 THEN segments[1]
    ELSE segments[1] \o <<1>> \o join_segments(Tail(segments))

\* the open segments as the path holds them: with expand_dots every '.' of
\* a segment is 0x01
path_segments ==
    [k \in 1..Len(open_segments) |->
        IF json_term_writer.expand_dots_enabled
        THEN [i \in 1..Len(open_segments[k]) |->
                 IF open_segments[k][i] = 46 THEN 1 ELSE open_segments[k][i]]
        ELSE open_segments[k]]

\* C15: with segments s1..sn open (n >= 1) and expand_dots off,
\* set_fast_value(v) of type T leaves the bytes: field (4 bytes BE), 'j',
\* s1 0x01 s2 ... 0x01 sn, 0x00, the code of T, the 8-byte big-endian u64
\* projection of v; field 1, path "color", -4i64 gives
\* 00 00 00 01 'j' "color" 00 'i' 7F FF FF FF FF FF FF FC.
C15_JsonFastValueTermLayout ==
    (/\ json_last_call.op = "set_fast_value"
     /\ Len(open_segments) >= 1
     /\ ~json_term_writer.expand_dots_enabled) =>
        LET t == json_term_writer.term_buffer
            joined == join_segments(open_segments)
            n == Len(joined)
        IN  /\ ~json_term_writer.panicked
            /\ Len(t) = 4 + 1 + n + 1 + 1 + 8
            /\ be_number(t[1], t[2], t[3], t[4], FALSE) = json_field
            /\ t[5] = 106
            /\ SubSeq(t, 6, 5 + n) = joined
            /\ t[6 + n] = 0
            /\ t[7 + n] = to_code(json_last_call.typ)
            /\ is_projection(SubSeq(t, 8 + n, 15 + n), json_last_call.typ, json_last_call.val)
            /\ (/\ json_field = 1
                /\ open_segments = << <<99, 111, 108, 111, 114>> >>
                /\ json_last_call.typ = "I64"
                /\ json_last_call.val = -4)
               => t = <<0, 0, 0, 1, 106, 99, 111, 108, 111, 114, 0, 105,
                        127, 255, 255, 255, 255, 255, 255, 252>>

\* set_fast_value(-4i64) under "a" and "color", after an earlier value was set
C15_Witness ==
    /\ json_last_call.op = "set_fast_value"
    /\ json_last_call.typ = "I64"
    /\ json_last_call.val = -4
    /\ ~json_term_writer.expand_dots_enabled
    /\ json_field = 258
    /\ open_segments = << <<97>>, <<99, 111, 108, 111, 114>> >>
    /\ json_term_writer.term_buffer
           = <<0, 0, 1, 2, 106, 97, 1, 99, 111, 108, 111, 114, 0, 105,
               127, 255, 255, 255, 255, 255, 255, 252>>

\* path_stack starts with 0 and is strictly increasing, and the buffer
\* holds at least path_stack.last() value bytes
path_stack_in_order(w) ==
    /\ w.path_stack # <<>>
    /\ w.path_stack[1] = 0
    /\ \A i \in 1..(Len(w.path_stack) - 1) : w.path_stack[i] < w.path_stack[i + 1]
    /\ Len(value_bytes(w.term_buffer)) >= w.path_stack[Len(w.path_stack)]

\* a push leaves the path, one separator and nothing else, and records
\* the end offset; a pop leaves the buffer cut at the previous offset
push_and_pop_discipline(w) ==
    /\ json_last_call.op = "push_path_segment" =>
           /\ value_bytes(w.term_buffer) = join_segments(path_segments) \o <<1>>
           /\ w.path_stack[Len(w.path_stack)] = Len(value_bytes(w.term_buffer))
    /\ json_last_call.op = "pop_path_segment" =>
           Len(value_bytes(w.term_buffer)) = w.path_stack[Len(w.path_stack)]

\* C16 as stated: after any calls in which pops never outnumber pushes,
\* path_stack is non-empty and strictly increasing from 0, the buffer is at
\* least path_stack.last() long, and path() is the open segments joined by 0x01.
C16_PathIsOpenSegmentsJoined ==
    (json_last_call.op # "idle" /\ ~json_term_writer.panicked) =>
        /\ path_stack_in_order(json_term_writer)
        /\ push_and_pop_discipline(json_term_writer)
        /\ path(json_term_writer) = [panicked |-> FALSE, bytes |-> join_segments(path_segments)]

\* C16, amended: the same while at least one segment is open; with no open
\* segment path() panics, and so do close_path_and_set_type, set_str and
\* set_fast_value; these and a pop that outnumbers the pushes are the only panics.
C16_PathIsOpenSegmentsJoinedWhenOpen ==
    json_last_call.op # "idle" =>
        /\ ~json_term_writer.panicked =>
            /\ path_stack_in_order(json_term_writer)
            /\ push_and_pop_discipline(json_term_writer)
            /\ Len(json_term_writer.path_stack) = Len(open_segments) + 1
            /\ open_segments # <<>> =>
                   path(json_term_writer)
                       = [panicked |-> FALSE, bytes |-> join_segments(path_segments)]
            /\ open_segments = <<>> => path(json_term_writer).panicked
        /\ json_term_writer.panicked <=>
            /\ open_segments = <<>>
            /\ \/ json_last_call.op \in {"close_path_and_set_type", "set_str", "set_fast_value"}
               \/ json_last_call.op = "pop_path_segment" /\ json_last_call.popped = <<>>

\* three segments were open, a value was set and one segment was popped
C16_Witness ==
    /\ json_last_call.op = "pop_path_segment"
    /\ Len(json_last_call.popped) = 3
    /\ open_segments = << <<99, 111, 108, 111, 114>>, <<97>> >>
    /\ json_term_writer.path_stack = <<0, 6, 8>>
    /\ path(json_term_writer) = [panicked |-> FALSE, bytes |-> <<99, 111, 108, 111, 114, 1, 97>>]

\* the parts of a segment between its '.' bytes
RECURSIVE split_at_dots(_)
split_at_dots(segment) ==
    IF \A i \in 1..Len(segment) : segment[i] # 46 THEN <<segment>>
    ELSE LET dot == CHOOSE i \in 1..Len(segment) :
                        segment[i] = 46 /\ \A j \in 1..(i - 1) : segment[j] # 46
         IN  <<SubSeq(segment, 1, dot - 1)>>
                 \o split_at_dots(SubSeq(segment, dot + 1, Len(segment)))

\* C17: with expand_dots, push_path_segment("a.b") gives the path bytes of
\* pushing "a" and then "b", yet one path_stack entry, so one pop removes
\* the whole segment; without expand_dots the '.' bytes stay in the path.
C17_ExpandDots ==
    (json_last_call.op # "idle" /\ ~json_term_writer.panicked) =>
        \A segment \in Segments :
            LET w == json_term_writer
                pushed == push_path_segment(w, segment)
                one_by_one == push_all(w, split_at_dots(segment))
                popped == pop_path_segment(pushed)
            IN  /\ Len(pushed.path_stack) = Len(w.path_stack) + 1
                /\ ~popped.panicked
                /\ popped.path_stack = w.path_stack
                /\ path(popped) = path(w)
                /\ w.expand_dots_enabled =>
                       /\ path(pushed) = path(one_by_one)
                       /\ pushed.term_buffer = one_by_one.term_buffer
                /\ ~w.expand_dots_enabled =>
                       LET bytes == path(pushed).bytes
                       IN  SubSeq(bytes, Len(bytes) - Len(segment) + 1, Len(bytes)) = segment

\* with expand_dots, "a.b" was pushed under "color": the path is
\* color 0x01 a 0x01 b with two entries above the 0, and one pop leaves "color"
C17_Witness ==
    /\ json_term_writer.expand_dots_enabled
    /\ json_last_call.op = "push_path_segment"
    /\ json_last_call.segment = <<97, 46, 98>>
    /\ open_segments = << <<99, 111, 108, 111, 114>>, <<97, 46, 98>> >>
    /\ json_term_writer.path_stack = <<0, 6, 10>>
    /\ path(json_term_writer).bytes = <<99, 111, 108, 111, 114, 1, 97, 1, 98>>
    /\ path(pop_path_segment(json_term_writer)).bytes = <<99, 111, 108, 111, 114>>

\* a writer wrapped around a new term buffer of the field, on which the
\* open segments were pushed and nothing else was done
fresh_writer_at_open_path ==
    push_all(wrap(with_type_and_field("Json", json_field),
                  json_term_writer.expand_dots_enabled),
             open_segments)

\* C33: the term bytes after set_str or set_fast_value depend only on the
\* open path segments and the value set: they are the bytes of a new
\* writer on which the open segments are pushed and the value is set; a
\* push after a set continues the path.
C33_SetDependsOnOpenPathAndValue ==
    /\ (json_last_call.op = "set_fast_value" /\ open_segments # <<>>) =>
           json_term_writer.term_buffer
               = set_fast_value(fresh_writer_at_open_path,
                                json_last_call.typ, json_last_call.val).term_buffer
    /\ (json_last_call.op = "set_str" /\ open_segments # <<>>) =>
           json_term_writer.term_buffer
               = set_str(fresh_writer_at_open_path, json_last_call.text).term_buffer
    /\ json_last_call.op = "push_path_segment" =>
           /\ json_term_writer.term_buffer = fresh_writer_at_open_path.term_buffer
           /\ json_term_writer.path_stack = fresh_writer_at_open_path.path_stack

\* "red" was set under "a" and "b" on a buffer that held the i64 400 at the
\* same path: the 8 value bytes and the type are gone
C33_Witness ==
    /\ json_last_call.op = "set_str"
    /\ json_field = 1
    /\ open_segments = << <<97>>, <<98>> >>
    /\ json_last_call.before
           = <<0, 0, 0, 1, 106, 97, 1, 98, 0, 105, 128, 0, 0, 0, 0, 0, 1, 144>>
    /\ json_term_writer.term_buffer
           = <<0, 0, 0, 1, 106, 97, 1, 98, 0, 115, 114, 101, 100>>

\* the sequences of one to MaxPathDepth path segments
SegmentSequences == UNION {[1..n -> Segments] : n \in 1..MaxPathDepth}

\* the term of a leaf: the segments pushed on a new writer and the value set
json_term_of(segments, set_call) ==
    LET w == push_all(wrap(with_type_and_field("Json", json_field),
                           json_term_writer.expand_dots_enabled), segments)
    IN  IF set_call.op = "set_str" THEN set_str(w, set_call.text).term_buffer
        ELSE set_fast_value(w, set_call.typ, set_call.val).term_buffer

\* C34: with expand_dots disabled two different (path segments, leaf type,
\* leaf value) triples never give the same term bytes, and
\* as_json_path_type_value_bytes recovers the path, the type and the value
\* bytes, for all segments, those holding 0x00 or 0x01 included.
C34_JsonTermEncodingInjective ==
    (/\ json_last_call.op \in {"set_str", "set_fast_value"}
     /\ ~json_term_writer.expand_dots_enabled
     /\ open_segments # <<>>) =>
        LET t == json_term_writer.term_buffer
            decoded == as_json_path_type_value_bytes(value_bytes(t))
        IN  /\ decoded.some
            /\ decoded.val.json_path = join_segments(open_segments)
            /\ decoded.val.typ = (IF json_last_call.op = "set_str" THEN "Str"
                                  ELSE json_last_call.typ)
            /\ Len(t) = TERM_METADATA_LENGTH + Len(decoded.val.json_path) + 2
                            + Len(decoded.val.value_bytes)
            /\ \A segments \in SegmentSequences :
                   /\ \A text \in JsonTexts :
                          json_term_of(segments, [op |-> "set_str", text |-> text]) = t =>
                              /\ segments = open_segments
                              /\ json_last_call.op = "set_str"
                              /\ json_last_call.text = text
                   /\ \A tv \in JsonFastValues :
                          json_term_of(segments, [op |-> "set_fast_value",
                                                  typ |-> tv[1], val |-> tv[2]]) = t =>
                              /\ segments = open_segments
                              /\ json_last_call.op = "set_fast_value"
                              /\ json_last_call.typ = tv[1]
                              /\ json_last_call.val = tv[2]

-----------------------------------------------------------------------------
(* Claims about the postings of JSON documents, checked under SpecPostings *)

Words == {elliot, smith, the, who}

\* the text values of a json value with the path they are at, in order
RECURSIVE leaves_of_value(_, _)
RECURSIVE leaves_of_items(_, _)
RECURSIVE leaves_of_entries(_, _)
leaves_of_value(segments, json_value) ==
    CASE json_value.kind = "String" /\ ~json_value.rfc3339.some ->
             << [segments |-> segments, tokens |-> json_value.tokens] >>
      [] json_value.kind = "Array" -> leaves_of_items(segments, json_value.items)
      [] json_value.kind = "Object" -> leaves_of_entries(segments, json_value.entries)
      [] OTHER -> <<>>

leaves_of_items(segments, items) ==
    IF items = <<>> THEN <<>>
    ELSE leaves_of_value(segments, items[1]) \o leaves_of_items(segments, Tail(items))

leaves_of_entries(segments, entries) ==
    IF entries = <<>> THEN <<>>
    ELSE leaves_of_value(Append(segments, entries[1][1]), entries[1][2])
             \o leaves_of_entries(segments, Tail(entries))

text_leaves(json_values) == leaves_of_items(<<>>, json_values)

\* the tokenizer gave every text value strictly increasing positions
well_formed(json_values) ==
    \A k \in 1..Len(text_leaves(json_values)) :
        LET tokens == text_leaves(json_values)[k].tokens
        IN  \A i \in 1..(Len(tokens) - 1) : tokens[i].position < tokens[i + 1].position

\* the term of a word at a path of the JSON field
text_term(segments, word) ==
    <<0, 0, 0, 1, 106>> \o join_segments(segments) \o <<0, 115>> \o word

\* the positions the posting list of the term has for the doc
positions_in(term_bytes, doc_id) ==
    IF term_bytes \notin DOMAIN per_term_state THEN {}
    ELSE LET list == decode(per_term_state[term_bytes])
         IN  UNION {{list[k].positions[i] : i \in 1..Len(list[k].positions)} :
                        k \in {j \in 1..Len(list) : list[j].doc_id = doc_id}}

\* a phrase query of two words on the path matches the doc
phrase_matches(doc_id, segments, first, second) ==
    \E p \in positions_in(text_term(segments, first), doc_id) :
        p + 1 \in positions_in(text_term(segments, second), doc_id)

\* the two words follow each other in one text value
phrase_in_value(tokens, first, second) ==
    \E i, j \in 1..Len(tokens) :
        /\ tokens[i].text = first
        /\ tokens[j].text = second
        /\ tokens[j].position = tokens[i].position + 1

\* C18: the text values of one JSON path of a document share one
\* IndexingPosition for the whole index_json_values call, so that recording
\* never meets a lower position and the tokens of a later value are not
\* adjacent to those of an earlier one: a two-word phrase matches on a path
\* exactly when one value at the path holds the two words in a row; for the
\* bands document "the who" matches and "the smith" does not.
C18_JsonValuesShareIndexingPosition ==
    /\ (last_add.op = "index_json_values"
            /\ well_formed(Documents[added_docs[Len(added_docs)]]))
           => ~last_add.record_failed
    /\ \A n \in 1..Len(added_docs) :
        LET leaves == text_leaves(Documents[added_docs[n]])
        IN  well_formed(Documents[added_docs[n]]) =>
            /\ \A k \in 1..Len(leaves) : \A first, second \in Words :
                   phrase_matches(n - 1, leaves[k].segments, first, second)
                       <=> \E m \in 1..Len(leaves) :
                               /\ leaves[m].segments = leaves[k].segments
                               /\ phrase_in_value(leaves[m].tokens, first, second)
            /\ added_docs[n] = 1 =>
                   /\ phrase_matches(n - 1, <<bands, name>>, the, who)
                   /\ ~phrase_matches(n - 1, <<bands, name>>, the, smith)

\* the bands document was indexed as doc 1 with every path on one hash:
\* "the" is at 3 and "who" at 4, behind "smith" at 1
C18_Witness ==
    /\ added_docs = <<3, 1>>
    /\ hash_modulus = 1
    /\ ~last_add.record_failed
    /\ positions_in(text_term(<<bands, name>>, smith), 1) = {1}
    /\ positions_in(text_term(<<bands, name>>, the), 1) = {3}
    /\ positions_in(text_term(<<bands, name>>, who), 1) = {4}
    /\ phrase_matches(1, <<bands, name>>, the, who)
    /\ ~phrase_matches(1, <<bands, name>>, the, smith)

doc_ids_strictly_increasing(list) ==
    \A k \in 1..(Len(list) - 1) : list[k].doc_id < list[k + 1].doc_id

\* C19 as stated: every decoded posting list has strictly increasing doc
\* ids and, within each doc, strictly increasing positions.
C19_PostingListStrictlyIncreasing ==
    \A term_bytes \in DOMAIN per_term_state :
        LET list == decode(per_term_state[term_bytes])
        IN  /\ doc_ids_strictly_increasing(list)
            /\ \A k \in 1..Len(list) : \A i \in 1..(Len(list[k].positions) - 1) :
                   list[k].positions[i] < list[k].positions[i + 1]

\* C19, amended: every decoded posting list has strictly increasing doc ids
\* and, within each doc, non-decreasing positions, as many as the term
\* frequency; the docs are docs of the segment.
C19_PostingListOrdered ==
    \A term_bytes \in DOMAIN per_term_state :
        LET list == decode(per_term_state[term_bytes])
        IN  /\ Len(list) >= 1
            /\ doc_ids_strictly_increasing(list)
            /\ \A k \in 1..Len(list) :
                /\ list[k].doc_id \in 0..(Len(added_docs) - 1)
                /\ list[k].term_freq = Len(list[k].positions)
                /\ list[k].term_freq >= 1
                /\ \A i \in 1..(Len(list[k].positions) - 1) :
                       list[k].positions[i] <= list[k].positions[i + 1]

\* {"a": [1, 1, -4], ..} is doc 0 and doc 2: the term of a = 1u64 was
\* recorded twice at position 0 in each
C19_Witness ==
    /\ added_docs = <<2, 1, 2>>
    /\ <<0, 0, 0, 1, 106, 97, 0, 117, 0, 0, 0, 0, 0, 0, 0, 1>> \in DOMAIN per_term_state
    /\ decode(per_term_state[<<0, 0, 0, 1, 106, 97, 0, 117, 0, 0, 0, 0, 0, 0, 0, 1>>])
           = << [doc_id |-> 0, term_freq |-> 2, positions |-> <<0, 0>>],
                [doc_id |-> 2, term_freq |-> 2, positions |-> <<0, 0>>] >>

\* C20: when record meets a position lower than the last one of the term in
\* the doc, the failure PositionNonIncreasing is reported to the caller, the
\* document is rejected, and the writer goes on: nothing of the document is
\* in the posting lists, which stay ordered.
C20_PositionNonIncreasingRejectsDocument ==
    (last_add.op = "index_json_values" /\ last_add.record_failed) =>
        /\ last_add.result = "PositionNonIncreasing"
        /\ ~last_add.panicked
        /\ \A term_bytes \in DOMAIN per_term_state :
               positions_in(term_bytes, last_add.doc_id) = {}
        /\ C19_PostingListOrdered

-----------------------------------------------------------------------------
(* Claims about reader generations and garbage collection, checked under SpecReader *)

\* the segments the meta or an open reader generation reaches
reachable_segments ==
    segment_ids(live_meta) \cup segment_ids(reader_pool)
        \cup UNION {segment_ids(searchers[s].val) :
                       s \in {s \in 1..MaxSearchers : searchers[s].some}}

\* C21: a segment file is deleted only if the latest committed meta does
\* not list its segment and no live reader generation references it: the
\* files of every segment reachable from the meta, the reader or a live
\* searcher are in the directory, and a step never removes such a file.
C21_GcSparesReferencedFiles ==
    /\ [](reader_last.op # "idle" =>
            /\ reachable_segments \subseteq managed_files
            /\ deleted_files \cap reachable_segments = {})
    /\ [][reader_last.op # "idle" =>
            /\ (managed_files \ managed_files') \cap reachable_segments = {}
            /\ (managed_files \ managed_files') # {} =>
                   reader_last'.op = "gc_delete"]_vars

\* a sweep has deleted the file of a merged segment while a searcher still
\* holds an older generation whose segment left the meta and kept its file
C21_Witness ==
    /\ reader_last.op = "gc_delete"
    /\ deleted_files # {}
    /\ \E s \in 1..MaxSearchers :
        /\ searchers[s].some
        /\ \E seg \in searchers[s].val :
            /\ seg.id \notin segment_ids(live_meta)
            /\ seg.id \notin segment_ids(reader_pool)
            /\ seg.id \in managed_files

\* C22: a searcher keeps the segment list of the generation it was obtained
\* from whatever is committed afterwards; only reload() changes what later
\* searchers see, swapping the whole list for that of the meta, so that
\* every searcher sees the segment list of one meta; the reader created on
\* the empty index sees 0 docs, and all committed docs after commit + reload.
C22_SearcherKeepsItsGeneration ==
    /\ [](reader_last.op # "idle" =>
            /\ reader_pool \in metas_published
            /\ \A s \in 1..MaxSearchers :
                   searchers[s].some => searchers[s].val \in metas_published
            /\ reader_last.op = "reader" => num_docs(reader_pool) = 0
            /\ reader_last.op = "reload" =>
                   /\ reader_pool = live_meta
                   /\ num_docs(reader_pool) = reader_last.docs_committed)
    /\ [][reader_last.op # "idle" =>
            /\ \A s \in 1..MaxSearchers :
                /\ (searchers[s].some /\ searchers'[s].some) => searchers'[s] = searchers[s]
                /\ (~searchers[s].some /\ searchers'[s].some) =>
                       searchers'[s].val = reader_pool
            /\ reader_pool' # reader_pool =>
                   (reader_last'.op = "reload" /\ reader_pool' = live_meta)]_vars

\* a searcher obtained before two commits and a reload still sees the empty
\* index; the reader sees the 4 documents committed
C22_Witness ==
    /\ reader_last.op = "reload"
    /\ reader_last.docs_committed = 4
    /\ num_docs(reader_pool) = 4
    /\ \E s \in 1..MaxSearchers : searchers[s].some /\ num_docs(searchers[s].val) = 0
    /\ \E s \in 1..MaxSearchers : searchers[s].some /\ num_docs(searchers[s].val) = 3

-----------------------------------------------------------------------------
(* Claims about the indexing workers, checked under SpecWorkers *)

segments_holding(d, segments) == {seg \in segments : d \in seg}

\* the places a document can be in: the channel, a worker's segment, a
\* pending segment, a published segment
places_of(d) ==
    Cardinality({i \in 1..Len(channel) : channel[i] = d})
        + Cardinality({w \in 1..NumWorkers : d \in worker_segment[w]})
        + Cardinality(segments_holding(d, pending_segments))
        + Cardinality(segments_holding(d, published_segments))

\* C23: with several workers, every document whose add_document returned
\* before commit() was called is in exactly one published segment once
\* commit returns, whatever the interleaving of the workers, their flushes
\* and the commit; nothing is published before the workers have quiesced.
C23_CommitPublishesEveryDocumentOnce ==
    /\ [](workers_last.op # "idle" =>
            /\ \A d \in 1..docs_added : places_of(d) = 1
            /\ workers_last.op = "commit returned" =>
                   \A d \in 1..workers_last.before :
                       Cardinality(segments_holding(d, published_segments)) = 1)
    /\ [][(workers_last.op # "idle" /\ published_segments' # published_segments) =>
            /\ channel = <<>>
            /\ \A w \in 1..NumWorkers : worker_segment[w] = {}
            /\ workers_last'.op = "commit returned"]_vars

\* a second commit has returned; the three documents went through both
\* workers and are in three published segments
C23_Witness ==
    /\ workers_last.op = "commit returned"
    /\ workers_last.before = 3
    /\ published_segments = {{1}, {2}, {3}}

-----------------------------------------------------------------------------
(* Claims about doc_freq, checked under SpecIndex *)

\* the documents of the searcher's segments that contain the term
searcher_docs_with(term) ==
    {d \in UNION {seg.docs : seg \in searcher.segments} : term \in d.terms}

\* those of them no delete has marked
live_docs_with(term) ==
    {d \in searcher_docs_with(term) : d.opstamp \in live_docs(searcher.segments)}

\* the add operations of documents containing the term that the searcher's
\* commit published
published_adds_with(term) ==
    {i \in 1..Len(oplog) : /\ oplog[i].kind = "add"
                           /\ ~oplog[i].discarded
                           /\ oplog[i].opstamp < searcher.opstamp
                           /\ term \in oplog[i].terms}

published_deletes ==
    {i \in 1..Len(oplog) : /\ oplog[i].kind = "delete"
                           /\ ~oplog[i].discarded
                           /\ oplog[i].opstamp < searcher.opstamp}

\* C24 as stated: after a delete has been committed, doc_freq(t) of a
\* reloaded reader is the number of remaining non-deleted documents
\* containing t.
C24_DocFreqCountsLiveDocs ==
    last_op # "idle" =>
        \A term \in Terms :
            doc_freq(searcher.segments, term) = Cardinality(live_docs_with(term))

\* C24, amended: doc_freq(t) of a reader is the number of documents
\* containing t in its segments, those marked deleted included; it is at
\* most the number of documents containing t that were committed, and
\* without deletes it is that number, the sum over the segments.
C24_DocFreqCountsWrittenDocs ==
    last_op # "idle" =>
        \A term \in Terms :
            LET df == doc_freq(searcher.segments, term)
            IN  /\ df = Cardinality(live_docs_with(term))
                         + Cardinality(searcher_docs_with(term) \ live_docs_with(term))
                /\ df <= Cardinality(published_adds_with(term))
                /\ published_deletes = {} =>
                       /\ df = Cardinality(published_adds_with(term))
                       /\ df = Cardinality(live_docs_with(term))

\* two documents containing "a" were committed in two segments, "a" was
\* deleted and the delete committed and reloaded: no document with "a" is
\* left and doc_freq("a") is 2
C24_Witness ==
    /\ last_op = "reload"
    /\ Cardinality(searcher.segments) = 2
    /\ published_deletes # {}
    /\ live_docs_with("a") = {}
    /\ doc_freq(searcher.segments, "a") = 2

-----------------------------------------------------------------------------
(* Claims about ColumnarReader, checked under SpecColumnar *)

\* the handles of the entries list_columns reports under a column name, in
\* the order of the listing
RECURSIVE listed_under(_, _)
listed_under(entries, column_name) ==
    IF entries = <<>> THEN <<>>
    ELSE (IF Head(entries).column_name = column_name
          THEN <<Head(entries).column_handle>> ELSE <<>>)
         \o listed_under(Tail(entries), column_name)

\* C25: read_columns(name) returns one handle for each dictionary key
\* name || 0x00 || type_code, these are the entries list_columns reports
\* under the column name name, and their column types differ pairwise.
C25_ReadColumnsAreTheColumnsOfTheName ==
    columnar_last.op = "read_columns" =>
        LET column_name == columnar_last.column_name
            result == columnar_last.result
            keys_of_name == {k \in column_dictionary :
                                \E t \in 0..255 : k = column_name \o <<0>> \o <<t>>}
            listing == list_columns(column_dictionary)
        IN  /\ result.tag = "Ok"
            /\ listing.tag = "Ok"
            /\ Len(result.results) = Cardinality(keys_of_name)
            /\ {h.file_slice : h \in {result.results[i] : i \in DOMAIN result.results}}
                   = {file_slice_of(column_dictionary, k) : k \in keys_of_name}
            /\ \A i \in DOMAIN result.results :
                   column_key(column_name, result.results[i].column_type) \in keys_of_name
            /\ result.results = listed_under(listing.results, column_name)
            /\ \A i, j \in DOMAIN result.results :
                   i # j => result.results[i].column_type # result.results[j].column_type

\* the column "a" has two types; read_columns("a") returns the two handles
C25_Witness ==
    /\ columnar_last.op = "read_columns"
    /\ columnar_last.column_name = <<97>>
    /\ column_dictionary = {column_key(<<97>>, 0), column_key(<<97>>, 1)}
    /\ Len(columnar_last.result.results) = 2
    /\ columnar_last.result.results[1].column_type = 0
    /\ columnar_last.result.results[2].column_type = 1

-----------------------------------------------------------------------------
(* Claims about the query side of a JSON field, checked under SpecQuery *)

\* the character at i is made literal by a backslash before it
RECURSIVE is_escaped(_, _)
is_escaped(json_path, i) ==
    i > 1 /\ json_path[i - 1] = 92 /\ ~is_escaped(json_path, i - 1)

\* the positions of the dots that split the path
unescaped_dots(json_path) ==
    {i \in 1..Len(json_path) : json_path[i] = 46 /\ ~is_escaped(json_path, i)}

\* the characters of the positions from..to but the backslashes that escape
RECURSIVE literal_chars(_, _, _)
literal_chars(json_path, from, to) ==
    IF from > to THEN <<>>
    ELSE IF json_path[from] = 92 /\ ~is_escaped(json_path, from)
    THEN literal_chars(json_path, from + 1, to)
    ELSE <<json_path[from]>> \o literal_chars(json_path, from + 1, to)

\* the k-th stretch between unescaped dots: where it starts and ends
stretch_start(json_path, k) ==
    IF k = 1 THEN 1
    ELSE 1 + CHOOSE d \in unescaped_dots(json_path) :
                 Cardinality({e \in unescaped_dots(json_path) : e < d}) = k - 2

stretch_end(json_path, k) ==
    IF k = 1 + Cardinality(unescaped_dots(json_path)) THEN Len(json_path)
    ELSE (CHOOSE d \in unescaped_dots(json_path) :
              Cardinality({e \in unescaped_dots(json_path) : e < d}) = k - 1) - 1

\* a segment with a backslash before each of its '.' and '\' characters
RECURSIVE escape_segment(_)
escape_segment(segment) ==
    IF segment = <<>> THEN <<>>
    ELSE IF segment[1] \in {46, 92}
    THEN <<92, segment[1]>> \o escape_segment(Tail(segment))
    ELSE <<segment[1]>> \o escape_segment(Tail(segment))

RECURSIVE join_escaped(_)
join_escaped(segments) ==
    IF Len(segments) = 1 THEN escape_segment(segments[1])
    ELSE escape_segment(segments[1]) \o <<46>> \o join_escaped(Tail(segments))

\* C35: split_json_path splits the path at every '.' that is not escaped; a
\* backslash makes the next character literal and is dropped; there are
\* exactly 1 + (number of unescaped dots) segments, so that a leading or a
\* trailing dot gives an empty segment; joining the segments, their '.' and
\* '\' escaped, and splitting again gives the segments back.  The writer of
\* from_field_and_json_path has one path_stack entry per segment.
C35_SplitAtUnescapedDots ==
    (query_last.op # "idle") =>
        LET segments == split_json_path(query_json_path)
            dots == unescaped_dots(query_json_path)
        IN  /\ Len(segments) = 1 + Cardinality(dots)
            /\ \A k \in 1..Len(segments) :
                   segments[k] = literal_chars(query_json_path,
                                               stretch_start(query_json_path, k),
                                               stretch_end(query_json_path, k))
            /\ (1 \in dots) => segments[1] = <<>>
            /\ (Len(query_json_path) \in dots) => segments[Len(segments)] = <<>>
            /\ split_json_path(join_escaped(segments)) = segments
            /\ (query_last.op = "from_field_and_json_path" /\ ~query_last.panicked) =>
                   Len(query_writer.val.path_stack) = 2 + Cardinality(dots)

\* ".a\." is opened: the segments are "" and "a."
C35_Witness ==
    /\ query_last.op = "from_field_and_json_path"
    /\ ~query_last.panicked
    /\ query_json_path = <<46, 97, 92, 46>>
    /\ split_json_path(query_json_path) = <<<<>>, <<97, 46>>>>
    /\ Len(query_writer.val.path_stack) = 3

\* the JSON object that holds leaf at the path of the segments
RECURSIVE nest(_, _)
nest(segments, leaf) ==
    IF Len(segments) = 1 THEN Object(<< <<segments[1], leaf>> >>)
    ELSE Object(<< <<segments[1], nest(Tail(segments), leaf)>> >>)

\* the terms that indexing the JSON number n at the path of the query gives,
\* for the field and the expand_dots setting of the writer w
indexed_number_terms(w, n) ==
    DOMAIN index_json_values(0, <<nest(split_json_path(query_json_path), Number(n))>>,
                             w.expand_dots_enabled,
                             SubSeq(w.term_buffer, 1, TERM_METADATA_LENGTH),
                             EmptyMap, "panic", 251).postings

\* C38: for an integer n and a path p, the term that
\* convert_to_fast_value_and_get_term builds at p from the decimal text of n
\* is the one term that indexing the JSON number n at p emits: its type is
\* U64 when n >= 0 and I64 when n < 0.
C38_IndexAndQueryInferSameIntegerType ==
    (query_last.op = "convert_to_fast_value_and_get_term") =>
        \A n \in PhraseIntegers :
            (query_last.phrase = to_string(n)) =>
                /\ query_last.result.some
                /\ as_json_path_type_value_bytes(value_bytes(query_last.result.val)).some
                /\ as_json_path_type_value_bytes(value_bytes(query_last.result.val)).val.typ
                       = (IF n >= 0 THEN "U64" ELSE "I64")
                /\ indexed_number_terms(query_writer.val, n) = {query_last.result.val}

\* "-4" is converted at the path "a.a": an I64 term, the one of the index side
C38_Witness ==
    /\ query_last.op = "convert_to_fast_value_and_get_term"
    /\ query_json_path = <<97, 46, 97>>
    /\ query_last.phrase = to_string(-4)
    /\ query_last.result.some
    /\ as_json_path_type_value_bytes(value_bytes(query_last.result.val)).val.typ = "I64"
    /\ indexed_number_terms(query_writer.val, -4) = {query_last.result.val}

-----------------------------------------------------------------------------
(* Claims about the indexing of JSON values, checked under SpecPostings *)

\* the items of an array with the items of its nested arrays in their place
RECURSIVE flatten_items(_)
flatten_items(items) ==
    IF items = <<>> THEN <<>>
    ELSE IF items[1].kind = "Array"
    THEN flatten_items(items[1].items) \o flatten_items(Tail(items))
    ELSE <<items[1]>> \o flatten_items(Tail(items))

\* the json values with every array of arrays made one array: the values of
\* the keys of the top-level objects
flatten_arrays(json_values) ==
    [k \in 1..Len(json_values) |->
        Object([e \in 1..Len(json_values[k].entries) |->
            LET entry == json_values[k].entries[e]
            IN  IF entry[2].kind = "Array"
                THEN <<entry[1], Array(flatten_items(entry[2].items))>>
                ELSE entry])]

\* every leaf of a json value (null, bool, number, string) with the keys it
\* is under, in the order of the document
RECURSIVE all_leaves_of_value(_, _)
RECURSIVE all_leaves_of_items(_, _)
RECURSIVE all_leaves_of_entries(_, _)
all_leaves_of_value(segments, json_value) ==
    CASE json_value.kind = "Array" -> all_leaves_of_items(segments, json_value.items)
      [] json_value.kind = "Object" -> all_leaves_of_entries(segments, json_value.entries)
      [] OTHER -> << [segments |-> segments, leaf |-> json_value] >>

all_leaves_of_items(segments, items) ==
    IF items = <<>> THEN <<>>
    ELSE all_leaves_of_value(segments, items[1]) \o all_leaves_of_items(segments, Tail(items))

all_leaves_of_entries(segments, entries) ==
    IF entries = <<>> THEN <<>>
    ELSE all_leaves_of_value(Append(segments, entries[1][1]), entries[1][2])
             \o all_leaves_of_entries(segments, Tail(entries))

all_leaves(json_values) == all_leaves_of_items(<<>>, json_values)

\* one object per leaf: the leaf alone at its path, no array around it
one_object_per_leaf(json_values) ==
    [k \in 1..Len(all_leaves(json_values)) |->
        nest(all_leaves(json_values)[k].segments, all_leaves(json_values)[k].leaf)]

is_fast_leaf(leaf) ==
    leaf.kind \in {"Bool", "Number"} \/ (leaf.kind = "String" /\ leaf.rfc3339.some)

\* the term of a bool, number or date leaf at a path of the JSON field
fast_term(segments, leaf) ==
    <<0, 0, 0, 1, 106>> \o join_segments(segments) \o <<0>>
        \o (CASE leaf.kind = "Bool" ->
                     <<111, 0, 0, 0, 0, 0, 0, 0, IF leaf.val THEN 1 ELSE 0>>
              [] leaf.kind = "Number" /\ leaf.val >= 0 ->
                     <<117>> \o to_be_bytes(word_of_int(leaf.val))
              [] leaf.kind = "Number" /\ leaf.val < 0 ->
                     <<105>> \o to_be_bytes(flip_sign_bit(word_of_int(leaf.val)))
              [] leaf.kind = "String" ->
                     <<100>> \o to_be_bytes(flip_sign_bit(word_of_int(
                         truncate_seconds(leaf.rfc3339.val)))))

\* how often the posting list of the term holds the doc
term_freq_in(term_bytes, doc_id) ==
    IF term_bytes \notin DOMAIN per_term_state THEN 0
    ELSE LET list == decode(per_term_state[term_bytes])
         IN  total([k \in 1..Len(list) |->
                       IF list[k].doc_id = doc_id THEN list[k].term_freq ELSE 0])

RECURSIVE occurrences_in(_, _)
occurrences_in(terms, doc_id) ==
    IF terms = {} THEN 0
    ELSE LET t == CHOOSE t \in terms : TRUE
         IN  term_freq_in(t, doc_id) + occurrences_in(terms \ {t}, doc_id)

\* the postings that index_json_values gives for json_values in place of
\* the document that was added last
postings_of_last_add(json_values) ==
    index_json_values(last_add.doc_id, json_values, last_add.expand_dots_enabled,
                      with_type_and_field("Json", JsonField), last_add.before,
                      "panic", hash_modulus).postings

\* C36: the elements of an array at the path p are indexed at the path p,
\* with no index component, and so on for nested arrays: the postings are
\* those of the document with its nested arrays flattened ([[x],[y]] as
\* [x,y]) and those of one object per leaf that holds the leaf alone at p.
\* A null leaf emits no term; every bool, number or date leaf emits exactly
\* one term, at position 0.
C36_ArraysAreFlattened ==
    (last_add.op = "index_json_values" /\ ~last_add.record_failed) =>
        LET json_values == Documents[added_docs[Len(added_docs)]]
            leaves == all_leaves(json_values)
            fast == {k \in 1..Len(leaves) : is_fast_leaf(leaves[k].leaf)}
            texts == {k \in 1..Len(leaves) :
                         leaves[k].leaf.kind = "String" /\ ~leaves[k].leaf.rfc3339.some}
        IN  /\ per_term_state = postings_of_last_add(flatten_arrays(json_values))
            /\ per_term_state = postings_of_last_add(one_object_per_leaf(json_values))
            /\ \A k \in fast :
                   /\ positions_in(fast_term(leaves[k].segments, leaves[k].leaf),
                                   last_add.doc_id) = {0}
                   /\ term_freq_in(fast_term(leaves[k].segments, leaves[k].leaf),
                                   last_add.doc_id)
                          = Cardinality({j \in fast :
                                fast_term(leaves[j].segments, leaves[j].leaf)
                                    = fast_term(leaves[k].segments, leaves[k].leaf)})
            /\ occurrences_in(DOMAIN per_term_state, last_add.doc_id)
                   = Cardinality(fast)
                         + total([k \in 1..Len(leaves) |->
                                     IF k \in texts THEN Len(leaves[k].leaf.tokens) ELSE 0])

\* {"a": [[1], [true, [null, -4]]], "b": [<a date>, [["The"]]]} was indexed
\* as doc 0: the terms of a = 1, a = true, a = -4, the date of b at the
\* whole second and the word of b, once each
C36_Witness ==
    /\ added_docs = <<6>>
    /\ last_add.op = "index_json_values"
    /\ ~last_add.record_failed
    /\ DOMAIN per_term_state =
           { <<0, 0, 0, 1, 106, 97, 0, 117, 0, 0, 0, 0, 0, 0, 0, 1>>,
             <<0, 0, 0, 1, 106, 97, 0, 111, 0, 0, 0, 0, 0, 0, 0, 1>>,
             <<0, 0, 0, 1, 106, 97, 0, 105, 127, 255, 255, 255, 255, 255, 255, 252>>,
             <<0, 0, 0, 1, 106, 98, 0, 100, 128, 0, 0, 0, 0, 15, 66, 64>>,
             <<0, 0, 0, 1, 106, 98, 0, 115>> \o the }
    /\ \A term_bytes \in DOMAIN per_term_state : term_freq_in(term_bytes, 0) = 1
    /\ per_term_state = postings_of_last_add(flatten_arrays(Documents[6]))
    /\ flatten_arrays(Documents[6]) # Documents[6]

\* C37: index_json_object and index_json_value return with the path_stack
\* and the path bytes of the writer as they were at entry, for every value
\* of every document; so pop_path_segment never fails its assertion, and
\* close_path_and_set_type is only called with a path segment open
\* (path_stack depth >= 2).  After index_json_values the writer is the one
\* of wrap again.
C37_PathStackBalanced ==
    (last_add.op = "index_json_values" /\ ~last_add.panicked) =>
        /\ last_add.balanced
        /\ \A depth \in last_add.close_depths : depth >= 2
        /\ last_add.path_stack = <<0>>
        /\ last_add.term_buffer = with_type_and_field("Json", JsonField)

\* the document with leaves under one key and under two keys was indexed:
\* the path was closed at the depths 2 and 3
C37_Witness ==
    /\ added_docs = <<3>>
    /\ last_add.op = "index_json_values"
    /\ ~last_add.panicked
    /\ last_add.balanced
    /\ last_add.close_depths = {2, 3}
    /\ last_add.path_stack = <<0>>

-----------------------------------------------------------------------------
(* Claims about Date terms, checked under SpecTerm *)

\* the eight value bytes that JsonTermWriter::set_fast_value writes for the
\* date at the path "a" of the field
json_date_value_bytes(field_id, date) ==
    LET w == set_fast_value(
                 push_path_segment(wrap(with_type_and_field("Json", field_id), FALSE), <<97>>),
                 "Date", date)
    IN  SubSeq(w.term_buffer, Len(w.term_buffer) - 7, Len(w.term_buffer))

\* C39: all ways of building a Date term agree: Term::from_field_date(f, d),
\* set_date(d) on a Date term of the field f and the leaf value of
\* JsonTermWriter::set_fast_value(d) carry the same 8 value bytes, the
\* big-endian u64 projection of d truncated to the whole second (towards
\* zero, a multiple of 1,000,000 microseconds; truncating again changes
\* nothing).
C39_DateTermsAgree ==
    (built_from.some /\ built_from.val.typ = "Date") =>
        LET date == built_from.val.date
            truncated == truncate_seconds(date)
        IN  /\ truncated % 1000000 = 0
            /\ truncate_seconds(truncated) = truncated
            /\ (date >= 0 => truncated <= date /\ date - truncated < 1000000)
            /\ (date < 0 => truncated >= date /\ truncated - date < 1000000)
            /\ value_bytes(from_fast_value(built_from.val.field, "Date", truncated))
                   = to_be_bytes(flip_sign_bit(word_of_int(truncated)))
            /\ json_date_value_bytes(built_from.val.field, date)
                   = to_be_bytes(flip_sign_bit(word_of_int(truncated)))
            /\ value_bytes(term_built) = to_be_bytes(flip_sign_bit(word_of_int(truncated)))

====
